---- MODULE Spec2Model ----
(***************************************************************************)
(* Heimdall: agents tail log files and push classified events to the       *)
(* central API (/ingest, /heartbeat), which stores them in PostgreSQL; an  *)
(* alert manager thread scans the store and sends Telegram notifications.  *)
(*                                                                         *)
(* Eighteen specifications share the variables of this module:             *)
(*   Spec          the ingestion path: /ingest transactions against the    *)
(*                 logs table, statement by statement, several requests    *)
(*                 at once;                                                *)
(*   AgentSpec     the Linux agent's collect/send loop against one server; *)
(*   AlertSpec     the alert manager's cycle over the store;               *)
(*   CursorSpec    read_new_lines on files that grow, rotate and vanish;   *)
(*   ClassifySpec  parse_event on a line at different times;               *)
(*   HostsSpec     GET /hosts over heartbeats and events;                  *)
(*   ApiSpec       POST /ingest and POST /heartbeat, request by request;   *)
(*   FirewallSpec  the firewall agent's loop against the server;           *)
(*   ConfigSpec    the alert manager while its settings are written;       *)
(*   DedupSpec     collect_events with a small cache of processed lines;   *)
(*   StateSpec     the state file the agent loads when it starts;          *)
(*   LoopSpec      the run loops: cycle, sleep, stop (LoopFairSpec: the    *)
(*                 loop's thread keeps running);                           *)
(*   WinSpec       the Windows agent's cursor over the Security log;       *)
(*   OrderSpec     the order of the detectors of parse_event;              *)
(*   QuietSpec     is_quiet_hour on any window at any minute;              *)
(*   ScanSpec      the alert manager with events ingested between polls;   *)
(*   TwinSpec      two alert managers on one store.                        *)
(***************************************************************************)
EXTENDS Integers, Sequences, FiniteSets, TLC

VARIABLES
    logs,           \* committed rows of table logs            (database_pg.py:89-103)
    heartbeats,     \* table heartbeats: host -> last_seen     (database_pg.py:126-134)
    now,            \* the clock, in minutes
    ingest,         \* the /ingest requests and their open transactions
    \* the Linux agent (agent_linux.py)
    files,          \* content of each monitored log file, a sequence of lines
    file_states,    \* LinuxAgent.file_states: source -> read position
    state_file,     \* content of .linux_agent_state
    processed_lines,\* LinuxAgent.processed_lines
    agent,          \* where the loop of LinuxAgent.run stands, and its batch
    cycle,          \* history of the agent's cycles, read by the properties only
    reader,         \* history: the call of read_new_lines made last on its own
    parsed,         \* history: what parse_event returned for a line, first and last
    hosts_response, \* history: the latest answer of GET /hosts
    api_call,       \* history: the latest POST /ingest or /heartbeat and its outcome
    fw,             \* where the loop of FirewallAgent.run stands, and its requests
    loop,           \* the run loops as LoopSpec sees them: steps, sleep, stop flag
    win,            \* the Windows agent and the Security log it reads
    classified,     \* history: the latest line given to the classifier, by the tests it passes
    quiet,          \* history: the latest call of is_quiet_hour on its own
    twin,           \* two alert managers on one store, and what they dispatched
    \* the alert manager (alert_manager.py)
    alert_history,  \* table alert_history: set of <<event_id, alert_type>>
    config,         \* table config, as the alert manager's getters read it
    engine,         \* where AlertManager.run stands, and its local variables
    audit           \* history of the notifications, read by the properties only

storeVars == <<logs, heartbeats, now>>
\* The variables of the specifications that stand on their own.
otherVars == <<loop, win, classified, quiet, twin>>
\* The variables of the server, of the Linux agent and of the firewall agent.
baseVars ==
    <<logs, heartbeats, now, ingest, files, file_states, state_file, processed_lines,
      agent, cycle, reader, parsed, hosts_response, api_call, fw>>
\* The histories of the API's endpoints.
apiVars == <<hosts_response, api_call>>
agentVars == <<files, file_states, state_file, processed_lines, agent, cycle, reader,
               parsed, hosts_response, api_call, fw, otherVars>>
alertVars == <<alert_history, config, engine, audit>>
vars == <<logs, heartbeats, now, ingest, files, file_states, state_file,
          processed_lines, agent, cycle, reader, parsed, hosts_response, api_call,
          fw, otherVars,
          alert_history, config, engine, audit>>

(***************************************************************************)
(* Bounds of the model.                                                    *)
(***************************************************************************)
MaxReqs == 3        \* /ingest requests in one behaviour of Spec
MaxFileLen == 2     \* lines one monitored file grows to
MaxRestarts == 1    \* restarts of the agent process in one behaviour
MaxNow == 2         \* the clock of AlertSpec runs from 0 to MaxNow
MaxCrashes == 1     \* restarts of the server process in one behaviour of AlertSpec
ScanLimit == 1      \* get_all_events(limit=100), scaled to the two events of AlertSpec

EventIds == {"e1", "e2"}
Hosts == {"h1", "h2"}
Reqs == 1..MaxReqs
ApiKeys == {"valid", "invalid", "missing"}
NoRow == -1         \* a host without a heartbeats row

\* The agent behind request r: its events carry the agent's own host name.
HostOfReq(r) == IF r % 2 = 1 THEN "h1" ELSE "h2"

(***************************************************************************)
(* Table logs.  A row carries the columns the server reads back; event_id  *)
(* is UNIQUE NOT NULL.                                                     *)
(***************************************************************************)
LogEventOf(id, host, os_type, event_type, sev, ts) ==
    [event_id |-> id, source_host |-> host, os_type |-> os_type,
     event_type |-> event_type, severity |-> sev, timestamp |-> ts]

\* An event sent by a Linux agent.
LogEvent(id, host, sev, ts) == LogEventOf(id, host, "LINUX", "LOGIN_FAIL", sev, ts)

StoredIds(rows) == {r.event_id : r \in rows}

RowsWithId(rows, id) == {r \in rows : r.event_id = id}

(***************************************************************************)
(* One psycopg2 connection with autocommit off: the first execute opens a  *)
(* transaction.  tx.rows are its uncommitted inserts, tx.aborted is the    *)
(* server-side "current transaction is aborted" state that every failed    *)
(* statement leaves behind, inserted and failed are the two counters of    *)
(* insert_events_batch.                                                    *)
(***************************************************************************)
NewTx == [rows |-> {}, aborted |-> FALSE, inserted |-> 0, failed |-> 0]

\* ExecInsert as an upsert (ON CONFLICT (event_id) DO UPDATE), the duplicate
\* counted as inserted.
ExecInsert_Upsert(tx, committed, ev) ==
    IF tx.aborted
    THEN [tx EXCEPT !.failed = @ + 1]
    ELSE [tx EXCEPT !.rows = {r \in @ : r.event_id # ev.event_id} \cup {ev},
                    !.inserted = @ + 1]

\* One pass of the for loop of insert_events_batch: cursor.execute(INSERT ...)
\* under try/except.  In an aborted transaction the statement raises
\* InFailedSqlTransaction (except Exception: failed += 1); a duplicate
\* event_id raises IntegrityError (failed += 1) and, there being no savepoint
\* and no rollback in the handler, leaves the transaction aborted; otherwise
\* the row is added to the transaction and inserted += 1.
ExecInsert(tx, committed, ev) ==
    IF tx.aborted
    THEN [tx EXCEPT !.failed = @ + 1]
    ELSE IF ev.event_id \in StoredIds(committed \cup tx.rows)
         THEN [tx EXCEPT !.aborted = TRUE, !.failed = @ + 1]
         ELSE [tx EXCEPT !.rows = @ \cup {ev}, !.inserted = @ + 1]

\* conn.commit(): COMMIT of an aborted transaction is answered with ROLLBACK
\* and raises nothing; otherwise the transaction's rows become visible.
CommitTx(tx, committed) ==
    IF tx.aborted THEN committed ELSE committed \cup tx.rows

\* insert_events_batch run without interleaving (one request at a time):
\* the fold of ExecInsert over the batch, then the commit.
RECURSIVE RunBatch(_, _, _)
RunBatch(tx, committed, batch) ==
    IF batch = <<>> THEN tx
    ELSE RunBatch(ExecInsert(tx, committed, Head(batch)), committed, Tail(batch))

insert_events_batch(committed, batch) ==
    LET tx == RunBatch(NewTx, committed, batch)
    IN  [inserted |-> tx.inserted, failed |-> tx.failed,
         logs |-> CommitTx(tx, committed)]

\* record_heartbeat as an UPDATE without a WHERE clause.
record_heartbeat_AllRows(hb, host, t) ==
    [h \in DOMAIN hb |-> IF h = host \/ hb[h] # NoRow THEN t ELSE hb[h]]

\* record_heartbeat: INSERT ... ON CONFLICT (source_host) DO UPDATE SET last_seen.
record_heartbeat(hb, host, t) == [hb EXCEPT ![host] = t]

\* ImplicitHeartbeats for the host of the first event of the request only.
ImplicitHeartbeats_FirstHost(hb, processed, batch, t) ==
    IF processed > 0
    THEN [h \in Hosts |-> IF batch[1].source_host = h THEN t ELSE hb[h]]
    ELSE hb

\* ingest_logs after the batch: if processed > 0, a heartbeat for every host
\* named in the request.
ImplicitHeartbeats(hb, processed, batch, t) ==
    IF processed > 0
    THEN [h \in Hosts |->
            IF \E k \in 1..Len(batch) : batch[k].source_host = h THEN t ELSE hb[h]]
    ELSE hb

\* validate_api_key that lets a request without a key pass.
validate_api_key_KeyOptional(key) ==
    IF key = "invalid" THEN 403 ELSE 200

\* validate_api_key: 401 without a key, 403 with an unknown one.
validate_api_key(key) ==
    IF key = "missing" THEN 401 ELSE IF key = "invalid" THEN 403 ELSE 200

(***************************************************************************)
(* /ingest, statement by statement.                                        *)
(***************************************************************************)
NewRequest ==
    [state |-> "new", batch |-> <<>>, next |-> 1, tx |-> NewTx,
     status |-> 0, events_processed |-> 0,
     \* history, read by the properties only: the rows this request's commit
     \* added and removed, the ids of the batch that were stored when it
     \* arrived, and the requests it ran concurrently with
     added |-> {}, removed |-> {}, known |-> {}, overlap |-> {}]

Open(r) == ingest[r].state = "open"

\* The batches a request may carry: the events of host h, in any order, each
\* id at most once in a batch (the empty batch included).
BatchesOf(h) ==
    {b \in UNION {[1..n -> {LogEvent(id, h, 3, 0) : id \in EventIds}] :
                    n \in 0..Cardinality(EventIds)} :
        \A i, j \in 1..Len(b) : b[i].event_id = b[j].event_id => i = j}

\* The open transaction, other than r's, that holds an uncommitted row with
\* this event_id (at most one can: the others wait for it).
Holders(r, id) ==
    {q \in Reqs \ {r} : Open(q) /\ id \in StoredIds(ingest[q].tx.rows)}

NextEvent(r) == ingest[r].batch[ingest[r].next]

HasNext(r) == Open(r) /\ ingest[r].next <= Len(ingest[r].batch)

\* An INSERT waits on the unique index while another transaction in progress
\* holds the same key; a statement in an aborted transaction fails at once.
Blocked(r) ==
    /\ HasNext(r)
    /\ ~ingest[r].tx.aborted
    /\ NextEvent(r).event_id \notin StoredIds(logs \cup ingest[r].tx.rows)
    /\ Holders(r, NextEvent(r).event_id) # {}

WaitsFor(r) == IF Blocked(r) THEN Holders(r, NextEvent(r).event_id) ELSE {}

RECURSIVE Reach(_, _)
Reach(S, n) ==
    IF n = 0 THEN S ELSE Reach(S \cup UNION {WaitsFor(q) : q \in S}, n - 1)

InDeadlock(r) == Blocked(r) /\ r \in Reach(WaitsFor(r), MaxReqs)

\* ingest_logs: validate_api_key, then get_conn and the start of the loop.
IngestBegin(r, key, batch) ==
    /\ ingest[r].state = "new"
    /\ validate_api_key(key) = 200
    /\ ingest' = [q \in Reqs |->
            IF q = r
            THEN [ingest[r] EXCEPT
                    !.state = "open", !.batch = batch,
                    !.known = {batch[k].event_id : k \in 1..Len(batch)}
                                \cap StoredIds(logs),
                    !.overlap = {o \in Reqs : Open(o)}]
            ELSE IF Open(q) THEN [ingest[q] EXCEPT !.overlap = @ \cup {r}]
            ELSE ingest[q]]
    /\ UNCHANGED <<storeVars, agentVars, alertVars>>

\* ingest_logs: the HTTPException of validate_api_key ends the request.
IngestReject(r, key) ==
    /\ ingest[r].state = "new"
    /\ validate_api_key(key) # 200
    /\ ingest' = [ingest EXCEPT ![r] =
            [@ EXCEPT !.state = "rejected", !.status = validate_api_key(key)]]
    /\ UNCHANGED <<storeVars, agentVars, alertVars>>

\* One INSERT of the loop.
InsertRow(r) ==
    /\ HasNext(r)
    /\ ~Blocked(r)
    /\ ingest' = [ingest EXCEPT ![r] =
            [@ EXCEPT !.tx = ExecInsert(@, logs, NextEvent(r)), !.next = @ + 1]]
    /\ UNCHANGED <<storeVars, agentVars, alertVars>>

\* The server's deadlock detector picks a waiting transaction of a cycle:
\* its INSERT raises DeadlockDetected (except Exception: failed += 1) and the
\* transaction is aborted.
DeadlockDetected(r) ==
    /\ InDeadlock(r)
    /\ ingest' = [ingest EXCEPT ![r] =
            [@ EXCEPT !.tx = [@ EXCEPT !.aborted = TRUE, !.failed = @ + 1],
                      !.next = @ + 1]]
    /\ UNCHANGED <<storeVars, agentVars, alertVars>>

\* End of the loop: conn.commit() and return_conn (the transaction is over),
\* the implicit heartbeats and the response.
IngestCommit(r) ==
    /\ Open(r)
    /\ ingest[r].next > Len(ingest[r].batch)
    /\ LET tx == ingest[r].tx
           after == CommitTx(tx, logs)
       IN  /\ logs' = after
           /\ heartbeats' = ImplicitHeartbeats(heartbeats, tx.inserted, ingest[r].batch, now)
           /\ ingest' = [ingest EXCEPT ![r] =
                    [@ EXCEPT !.state = "done", !.status = 200, !.tx = NewTx,
                              !.events_processed = tx.inserted,
                              !.added = after \ logs,
                              !.removed = logs \ after]]
    /\ UNCHANGED <<now, agentVars, alertVars>>

\* POST /heartbeat: validate_api_key, then record_heartbeat.
ReceiveHeartbeat(h, key) ==
    /\ validate_api_key(key) = 200
    /\ heartbeats[h] # now
    /\ heartbeats' = record_heartbeat(heartbeats, h, now)
    /\ UNCHANGED <<logs, now, ingest, agentVars, alertVars>>

(***************************************************************************)
(* The Linux agent (agent_linux.py).  A monitored file is a sequence of    *)
(* lines and a read position counts whole lines.                           *)
(***************************************************************************)
AgentHost == "h1"
LogFiles == <<"auth.log", "syslog">>          \* LinuxAgent.log_files
Sources == {LogFiles[k] : k \in 1..Len(LogFiles)}
Lines == {"fail1", "fail2", "short"}
\* A file on disk: absent, or present with its content.
NoFile == [present |-> FALSE, content |-> <<>>]
File(c) == [present |-> TRUE, content |-> c]
\* parse_event returning None.
NoEvent == LogEventOf(<<>>, "", "", "", 0, 0)
DedupCapacity == 100000

\* The text of the modelled lines:
\*   fail1  "Nov  2 10:00:01 sshd[1]: Failed password for root from 10.0.0.1 port 22 ssh2"
\*   fail2  "Nov  2 10:00:02 sshd[2]: Invalid user admin from 10.0.0.2"
\*   short  "ok"
\* and, classified in ClassifySpec only,
\*   fail1-padded  the text of fail1 followed by a blank
\*   web403  "2026/11/02 10:00:03 [error] 7#7: *1 access forbidden by rule, client: 10.0.0.3"
ClassifyLines == Lines \cup {"fail1-padded", "web403"}

\* line.strip(): only fail1-padded carries a surrounding blank.
Strip(line) == IF line = "fail1-padded" THEN "fail1" ELSE line

\* len(line.strip()) < 10
TooShort(line) == Strip(line) = "short"

\* The first pattern of parse_event that matches, as the tag of the event id.
Detector(line) ==
    IF line \in {"fail1", "fail1-padded"} THEN "failed-pwd"
    ELSE IF line = "fail2" THEN "invalid-user"
    ELSE IF line = "web403" THEN "web-403"
    ELSE "none"

\* The line starts with a syslog date ("Nov  2 10:00:01").
HasSyslogDate(line) == line \in {"fail1", "fail1-padded", "fail2"}

\* parse_timestamp at time t: the date of the line (fail1 is minute 1, fail2
\* minute 2; the year is the current one, the same throughout the model), or
\* the current time for a line that does not start with a syslog date.
parse_timestamp(line, t) ==
    IF HasSyslogDate(line) THEN (IF line = "fail2" THEN 2 ELSE 1) ELSE t

\* parse_event: None for a short or unmatched line, else the event, whose id
\* is "<source_host>-<tag>-<md5 of the stripped line>".
parse_event(line, t) ==
    IF TooShort(line) \/ Detector(line) = "none" THEN NoEvent
    ELSE LogEventOf(<<AgentHost, Detector(line), Strip(line)>>, AgentHost, "LINUX",
                    IF Detector(line) = "web-403" THEN "CONNECTION_BLOCKED"
                    ELSE "LOGIN_FAIL",
                    IF Detector(line) = "web-403" THEN 2 ELSE 3,
                    parse_timestamp(line, t))

\* read_new_lines without the test for a file that shrank.
read_new_lines_NoRotation(file, last_pos) ==
    IF ~file.present
    THEN [lines |-> <<>>, pos |-> last_pos, read |-> FALSE]
    ELSE LET size == Len(file.content)
         IN  [lines |-> SubSeq(file.content, last_pos + 1, size),
              pos |-> size, read |-> TRUE]

\* read_new_lines that never seeks: every read starts at the top of the file.
read_new_lines_FromStart(file, last_pos) ==
    IF ~file.present
    THEN [lines |-> <<>>, pos |-> last_pos, read |-> FALSE]
    ELSE [lines |-> file.content, pos |-> Len(file.content), read |-> TRUE]

\* read_new_lines that forgets the position of a file it does not find.
read_new_lines_ForgetMissing(file, last_pos) ==
    IF ~file.present
    THEN [lines |-> <<>>, pos |-> 0, read |-> TRUE]
    ELSE LET size == Len(file.content)
             start == IF size < last_pos THEN 0 ELSE last_pos
         IN  [lines |-> SubSeq(file.content, start + 1, size),
              pos |-> size, read |-> TRUE]

\* read_new_lines without the side effects: the lines read and the position
\* afterwards.  An absent file yields nothing and keeps the position; a file
\* shorter than the position is read from its start.
read_new_lines(file, last_pos) ==
    IF ~file.present
    THEN [lines |-> <<>>, pos |-> last_pos, read |-> FALSE]
    ELSE LET size == Len(file.content)
             start == IF size < last_pos THEN 0 ELSE last_pos
         IN  [lines |-> SubSeq(file.content, start + 1, size),
              pos |-> size, read |-> TRUE]

\* A single position kept for all files instead of one per path.
store_position_Shared(states, file_path, pos) ==
    [f \in DOMAIN states |-> pos]

\* self.file_states[file_path] = f.tell()
store_position(states, file_path, pos) ==
    [states EXCEPT ![file_path] = pos]

\* The inner loop of collect_events over the lines of one file: a line whose
\* hash is in processed_lines is skipped, the others are recorded and parsed.
\* calls (history) lists the lines parse_event was called on.
RECURSIVE DedupAndParse(_, _, _, _)
DedupAndParse(lines, seen, events, calls) ==
    IF lines = <<>> THEN [seen |-> seen, events |-> events, calls |-> calls]
    ELSE LET line == Head(lines)
         IN  IF line \in seen
             THEN DedupAndParse(Tail(lines), seen, events, calls)
             ELSE DedupAndParse(Tail(lines), seen \cup {line},
                      IF parse_event(line, now) = NoEvent THEN events
                      ELSE Append(events, parse_event(line, now)),
                      Append(calls, line))

\* The outer loop of collect_events from log file k on.  read_new_lines
\* stores the new position in file_states and saves the state file at once.
RECURSIVE CollectFrom(_, _)
CollectFrom(k, st) ==
    IF k > Len(LogFiles) THEN st
    ELSE LET f == LogFiles[k]
             rd == read_new_lines(files[f], st.file_states[f])
             fs == store_position(st.file_states, f, rd.pos)
             dp == DedupAndParse(rd.lines, st.seen, st.events, st.calls)
         IN  CollectFrom(k + 1,
                 [file_states |-> fs,
                  state_file |-> IF rd.read THEN File(fs) ELSE st.state_file,
                  seen |-> dp.seen, events |-> dp.events, calls |-> dp.calls])

\* collect_events with a cache that starts empty in every call.
collect_events_upto_FreshCache(capacity) ==
    LET st == CollectFrom(1, [file_states |-> file_states, state_file |-> state_file,
                              seen |-> {}, events |-> <<>>,
                              calls |-> <<>>])
    IN  [st EXCEPT !.seen = IF Cardinality(@) > capacity THEN {} ELSE @]

\* collect_events without the clean-up of processed_lines.
collect_events_upto_NoCleanup(capacity) ==
    CollectFrom(1, [file_states |-> file_states, state_file |-> state_file,
                    seen |-> processed_lines, events |-> <<>>, calls |-> <<>>])

\* collect_events, with the clean-up of processed_lines that ends it, for a
\* cache of the given capacity.
collect_events_upto(capacity) ==
    LET st == CollectFrom(1, [file_states |-> file_states, state_file |-> state_file,
                              seen |-> processed_lines, events |-> <<>>,
                              calls |-> <<>>])
    IN  [st EXCEPT !.seen = IF Cardinality(@) > capacity THEN {} ELSE @]

\* collect_events of the agents: the capacity is 100000.
collect_events == collect_events_upto(DedupCapacity)

\* _load_state that takes every state file for a mapping.
load_state_NoMigration(file) ==
    IF ~file.present \/ DOMAIN file.content = {} THEN [f \in Sources |-> 0]
    ELSE [f \in Sources |-> IF f \in DOMAIN file.content THEN file.content[f] ELSE 0]

\* _load_state that starts behind the history when there is no state to load.
load_state_SkipHistory(file) ==
    IF ~file.present \/ DOMAIN file.content = {} THEN [f \in Sources |-> MaxFileLen]
    ELSE IF "last_position" \in DOMAIN file.content
    THEN [f \in Sources |-> IF f = LogFiles[1] THEN file.content["last_position"]
                            ELSE 0]
    ELSE file.content

\* _load_state that keeps the position of the first configured file only.
load_state_FirstOnly(file) ==
    IF ~file.present \/ DOMAIN file.content = {} THEN [f \in Sources |-> 0]
    ELSE IF "last_position" \in DOMAIN file.content
    THEN [f \in Sources |-> IF f = LogFiles[1] THEN file.content["last_position"]
                            ELSE 0]
    ELSE [f \in Sources |-> IF f = LogFiles[1] THEN file.content[f] ELSE 0]

\* _load_state.  The state file holds a JSON object, which is the saved
\* mapping or the legacy {"last_position": n}; the file without content is
\* the empty or cut-off file json.load raises on.  No state file and the
\* exception give {}, the legacy object gives its position to log_files[0];
\* a file without an entry reads from position 0 (file_states.get).
load_state(file) ==
    IF ~file.present \/ DOMAIN file.content = {} THEN [f \in Sources |-> 0]
    ELSE IF "last_position" \in DOMAIN file.content
    THEN [f \in Sources |-> IF f = LogFiles[1] THEN file.content["last_position"]
                            ELSE 0]
    ELSE file.content

SeqToSet(q) == {q[k] : k \in 1..Len(q)}

\* A call of read_new_lines as the properties see it: the path it was called
\* with, the file and the position it found, and the list it returned.
Call(file_path, file, last_pos, lines) ==
    [file_path |-> file_path, file |-> file, last_pos |-> last_pos, lines |-> lines]
NoCall == Call("", NoFile, 0, <<>>)

\* A POST /ingest or POST /heartbeat as the properties see it: n tells one
\* request from the next, hosts are the hosts the request names, key is its
\* api-key header, body_ok tells whether its body is inside the schema, at
\* is the time it was handled, added are the rows it stored.
ApiCall(n, op, hosts, key, body_ok, status, at, added) ==
    [n |-> n, op |-> op, hosts |-> hosts, key |-> key, body_ok |-> body_ok,
     status |-> status, at |-> at, added |-> added]
NoApiCall == ApiCall(0, "none", {}, "missing", TRUE, 0, 0, {})

\* GET /hosts not called yet.
NoResponse ==
    [called |-> FALSE, threshold |-> 0, at |-> 0, heartbeats |-> [h \in Hosts |-> NoRow],
     logs |-> {}, active |-> {}, inactive |-> {}]

\* A line parse_event was not called on yet.
NotParsed == [called |-> FALSE, first |-> NoEvent, last |-> NoEvent]

AgentInit ==
    /\ files = [f \in Sources |-> File(<<>>)]
    /\ state_file = NoFile
    /\ file_states = load_state(NoFile)
    /\ processed_lines = {}
    /\ agent = [pc |-> "collect", batch |-> <<>>, restarts |-> 0]
    /\ cycle = [start_mem |-> load_state(NoFile), start_file |-> NoFile,
                last_send |-> "none", failed_batch |-> {}, calls |-> <<>>]
    /\ reader = NoCall
    /\ parsed = [line \in ClassifyLines |-> NotParsed]
    /\ hosts_response = NoResponse
    /\ api_call = NoApiCall
    /\ fw = [pc |-> "collect", events |-> <<>>, sent |-> {}]

(***************************************************************************)
(* The alert manager (alert_manager.py, telegram_alerts.py) and the tables *)
(* it reads.  The clock counts minutes; the server's local time is UTC.    *)
(***************************************************************************)
DayMinutes == 1440
DefaultSeverityThreshold == 4       \* ALERT_SEVERITY_THRESHOLD
DefaultInactiveThreshold == 15      \* ALERT_INACTIVE_THRESHOLD

\* The events the agent of h1 sends in AlertSpec; the timestamp is the one of
\* the log line.
AlertEvents == {LogEvent("e1", "h1", 4, 1), LogEvent("e2", "h1", 2, 2)}

\* ALERT_QUIET_HOURS: empty, or "HH:MM-HH:MM" as start and end minute of day.
NoQuietHours == [set |-> FALSE, start |-> 0, end |-> 0]
QuietHours(start, end) == [set |-> TRUE, start |-> start, end |-> end]

\* The values the /alert-config endpoints are called with.
InactiveSettings == {1}
QuietSettings == {NoQuietHours, QuietHours(1, 2), QuietHours(2, 1)}

\* An alert condition is the key of alert_history: <<event_id, alert_type>>.
host_down_id(hostname) == "host-down-" \o hostname
CriticalAlert(event_id) == <<event_id, "critical">>
HostDownAlert(hostname) == <<host_down_id(hostname), "host_down">>
AlertHosts == {"h1"}
Conditions ==
    {CriticalAlert(e.event_id) : e \in AlertEvents} \cup {HostDownAlert(h) : h \in AlertHosts}

\* get_all_events(limit): SELECT * FROM logs ORDER BY timestamp DESC LIMIT limit.
RECURSIVE get_all_events(_, _)
get_all_events(rows, limit) ==
    IF limit = 0 \/ rows = {} THEN <<>>
    ELSE LET newest == CHOOSE r \in rows : \A q \in rows : q.timestamp <= r.timestamp
         IN  <<newest>> \o get_all_events(rows \ {newest}, limit - 1)

\* The hosts with a heartbeats row and the hosts that only have logs, and
\* when each was seen last: the heartbeat or else the newest timestamp.
KnownHosts(hb, rows) ==
    {h \in Hosts : hb[h] # NoRow \/ \E r \in rows : r.source_host = h}

LastSeen(hb, rows, h) ==
    IF hb[h] # NoRow THEN hb[h]
    ELSE LET mine == {r \in rows : r.source_host = h}
         IN  (CHOOSE r \in mine : \A q \in mine : q.timestamp <= r.timestamp).timestamp

\* heartbeats.os_type: every heartbeat of the model comes from a Linux agent.
HeartbeatOsType == "LINUX"

HostInfo(hostname, os_type, last_seen) ==
    [hostname |-> hostname, os_type |-> os_type, last_seen |-> last_seen]

\* The query of get_host_status: SELECT ... FROM heartbeats UNION SELECT
\* source_host, os_type, MAX(timestamp) FROM logs WHERE source_host NOT IN
\* (SELECT source_host FROM heartbeats) GROUP BY source_host, os_type.
HostRows(hb, rows) ==
    LET only_logs == {r \in rows : hb[r.source_host] = NoRow}
        group(r) == {q \in only_logs : q.source_host = r.source_host
                                         /\ q.os_type = r.os_type}
        max(g) == (CHOOSE r \in g : \A q \in g : q.timestamp <= r.timestamp).timestamp
    IN  {HostInfo(h, HeartbeatOsType, hb[h]) : h \in {x \in Hosts : hb[x] # NoRow}}
            \cup {HostInfo(r.source_host, r.os_type, max(group(r))) : r \in only_logs}

\* get_host_status with a host whose last_seen is exactly the threshold ago
\* counted as inactive.
get_host_status_Strict(hb, rows, t, inactive_threshold_minutes) ==
    LET combined == HostRows(hb, rows)
        active == {x \in combined : x.last_seen > t - inactive_threshold_minutes}
    IN  [active |-> active, inactive |-> combined \ active]

\* get_host_status at time t: a row is active
\* iff last_seen_dt >= utcnow() - timedelta(minutes = threshold).
get_host_status(hb, rows, t, inactive_threshold_minutes) ==
    LET combined == HostRows(hb, rows)
        active == {x \in combined : x.last_seen >= t - inactive_threshold_minutes}
    IN  [active |-> active, inactive |-> combined \ active]

\* check_alert_sent called without its alert_type, which defaults to "critical".
check_alert_sent_DefaultType(history, event_id, alert_type) ==
    <<event_id, "critical">> \in history

\* check_alert_sent: SELECT id FROM alert_history WHERE event_id AND alert_type.
check_alert_sent(history, event_id, alert_type) ==
    <<event_id, alert_type>> \in history

\* record_alert_sent: INSERT ... ON CONFLICT (event_id, alert_type) DO NOTHING.
record_alert_sent(history, event_id, alert_type) ==
    history \cup {<<event_id, alert_type>>}

\* is_quiet_hour without the branch for a window that wraps midnight.
is_quiet_hour_NoWrap(quiet_hours, t) ==
    IF ~quiet_hours.set THEN FALSE
    ELSE LET current_minutes == t % DayMinutes
         IN  quiet_hours.start <= current_minutes /\ current_minutes < quiet_hours.end

\* is_quiet_hour at time t.
is_quiet_hour(quiet_hours, t) ==
    IF ~quiet_hours.set THEN FALSE
    ELSE LET current_minutes == t % DayMinutes
             start_minutes == quiet_hours.start
             end_minutes == quiet_hours.end
         IN  IF start_minutes < end_minutes
             THEN start_minutes <= current_minutes /\ current_minutes < end_minutes
             ELSE current_minutes >= start_minutes \/ current_minutes < end_minutes

\* get_config without the query: the default, which is the value of the
\* environment.
get_config_EnvOnly(cfg, key) ==
    [severity_threshold |-> DefaultSeverityThreshold,
     inactive_threshold |-> DefaultInactiveThreshold,
     quiet_hours |-> NoQuietHours, enabled |-> TRUE][key]

\* get_config: the value of the row of the key in the table config, which
\* holds the defaults for the keys never written.
get_config(cfg, key) == cfg[key]

get_severity_threshold(cfg) == get_config(cfg, "severity_threshold")
get_inactive_threshold(cfg) == get_config(cfg, "inactive_threshold")
get_alerts_enabled(cfg) == get_config(cfg, "enabled")
get_quiet_hours(cfg) == get_config(cfg, "quiet_hours")

\* AlertManager.run before its first cycle.  events, i, threshold, hosts and
\* inactive are the local variables of the two checks of a cycle; cur and
\* last are the condition evaluated last in the cycle and what became of it;
\* in_window (history) tells whether that evaluation fell into the
\* configured quiet hours, had_record (history) whether alert_history held
\* the condition then, crashes (history) counts the restarts of the
\* process.
NewEngine(crashes) ==
    [pc |-> "start", events |-> <<>>, i |-> 1, threshold |-> 0,
     hosts |-> {}, inactive |-> {}, cur |-> <<"", "">>, last |-> "none",
     in_window |-> FALSE, had_record |-> FALSE, crashes |-> crashes]

AlertInit ==
    /\ alert_history = {}
    /\ config = [severity_threshold |-> DefaultSeverityThreshold,
                 inactive_threshold |-> DefaultInactiveThreshold,
                 quiet_hours |-> NoQuietHours,
                 enabled |-> TRUE]
    /\ engine = NewEngine(0)
    /\ audit = [dispatched |-> [c \in Conditions |-> "never"],
                status |-> [c \in Conditions |-> "none"], clean |-> FALSE,
                written |-> [severity_threshold |-> DefaultSeverityThreshold,
                             inactive_threshold |-> DefaultInactiveThreshold,
                             quiet_hours |-> NoQuietHours,
                             enabled |-> TRUE]]

\* The Windows agent after __init__ on a machine without a state file, and
\* the Security log it reads: last_record_number is 0 and no high-water mark
\* is pending (0 stands for None: a pending mark is above the cursor).
NewWindowsAgent ==
    [log |-> <<>>, last_record_number |-> 0, state_file |-> 0,
     pending_high_water_mark |-> 0, pc |-> "collect", batch |-> {},
     status |-> "none", failed_batch |-> {}, delivered |-> {}]

\* No line has been given to the classifier yet.
NotClassified == [called |-> FALSE, short |-> FALSE, matches |-> {}, event |-> NoEvent]

\* is_quiet_hour has not been called on its own yet.
NotEvaluated ==
    [called |-> FALSE, quiet_hours |-> [set |-> FALSE, start |-> 0, end |-> 0],
     current |-> 0, result |-> FALSE]

\* The conditions two alert managers on one store come upon: a stored event
\* at the threshold and an inactive host.
TwinConditions == {CriticalAlert("e1"), HostDownAlert("h1")}

\* Two alert managers between two cycles; nothing was dispatched.
TwoEngines ==
    [pc |-> [i \in 1..2 |-> "sleep"], cur |-> [i \in 1..2 |-> <<"", "">>],
     dispatched |-> [c \in TwinConditions |-> 0]]

\* No run loop has been entered yet.
NoLoop ==
    [kind |-> "none", pc |-> "idle", step |-> 0, failed |-> FALSE,
     raised |-> FALSE, after_failure |-> FALSE, left |-> 0, polled |-> FALSE,
     stop |-> FALSE, waited |-> 0]

Init ==
    /\ logs = {}
    /\ heartbeats = [h \in Hosts |-> NoRow]
    /\ now = 0
    /\ ingest = [r \in Reqs |-> NewRequest]
    /\ AgentInit
    /\ AlertInit
    /\ loop = NoLoop
    /\ win = NewWindowsAgent
    /\ classified = NotClassified
    /\ quiet = NotEvaluated
    /\ twin = TwoEngines

Next ==
    \/ \E r \in Reqs : \E b \in BatchesOf(HostOfReq(r)) : IngestBegin(r, "valid", b)
    \/ \E r \in Reqs, key \in ApiKeys : IngestReject(r, key)
    \/ \E r \in Reqs : InsertRow(r)
    \/ \E r \in Reqs : DeadlockDetected(r)
    \/ \E r \in Reqs : IngestCommit(r)

Spec == Init /\ [][Next]_vars

(***************************************************************************)
(* Properties of the ingestion path (specification Spec).                  *)
(***************************************************************************)
Done(r) == ingest[r].state = "done"

BatchIds(r) == {ingest[r].batch[k].event_id : k \in 1..Len(ingest[r].batch)}

\* Every event of r's batch was stored when the request arrived.
Resubmission(r) == ingest[r].batch # <<>> /\ ingest[r].known = BatchIds(r)

\* r's batch mixed stored and new events when the request arrived.
Mixed(r) == ingest[r].known # {} /\ ingest[r].known # BatchIds(r)

\* C1: a batch whose events were all stored when it arrived is a no-op: the
\* response reports events_processed = 0 and the commit adds no row and
\* removes or changes none.
C1_ResubmitIsNoOp ==
    \A r \in Reqs :
        (Done(r) /\ Resubmission(r)) =>
            /\ ingest[r].events_processed = 0
            /\ ingest[r].added = {}
            /\ ingest[r].removed = {}

C1_Witness ==
    \E r \in Reqs :
        /\ Done(r) /\ Resubmission(r)
        /\ Len(ingest[r].batch) > 1
        /\ BatchIds(r) \subseteq StoredIds(logs)

\* C2: in a batch that mixes stored and new events the duplicate is rejected
\* per row without aborting the batch: after the request every event of the
\* batch is stored, and events_processed is the number of rows the request
\* added.
C2_PerRowRejection ==
    \A r \in Reqs :
        (Done(r) /\ Mixed(r)) =>
            /\ BatchIds(r) \subseteq StoredIds(logs)
            /\ ingest[r].events_processed = Cardinality(ingest[r].added)

\* No two stored rows share an event_id (the UNIQUE constraint).
UniqueEventIds ==
    \A id \in EventIds : Cardinality(RowsWithId(logs, id)) <= 1

\* C3: no two stored rows share an event_id, and when requests that ran
\* concurrently and carried the same id have all ended, that id has exactly
\* one stored row.
C3_RaceLeavesOneRow ==
    /\ UniqueEventIds
    /\ (\A r \in Reqs : ~Open(r)) =>
            \A r \in Reqs : \A q \in ingest[r].overlap :
                (Done(r) /\ Done(q)) =>
                    \A id \in BatchIds(r) \cap BatchIds(q) :
                        Cardinality(RowsWithId(logs, id)) = 1

(***************************************************************************)
(* The loop of LinuxAgent.run against the server, which handles one        *)
(* request at a time (specification AgentSpec).                            *)
(***************************************************************************)
\* A line is appended to a monitored file.
AppendLine(f, line) ==
    /\ files[f].present
    /\ Len(files[f].content) < MaxFileLen
    /\ files' = [files EXCEPT ![f] = File(Append(@.content, line))]
    /\ UNCHANGED <<storeVars, ingest, file_states, state_file, processed_lines,
                   agent, cycle, reader, parsed, apiVars, fw, otherVars,
                   alertVars>>

\* run: events = self.collect_events()
CollectEvents ==
    /\ agent.pc = "collect"
    /\ LET st == collect_events
       IN  /\ file_states' = st.file_states
           /\ state_file' = st.state_file
           /\ processed_lines' = st.seen
           /\ agent' = [agent EXCEPT !.pc = IF st.events = <<>> THEN "heartbeat"
                                             ELSE "send",
                                     !.batch = st.events]
    /\ UNCHANGED <<storeVars, ingest, files, cycle, reader, parsed, apiVars, fw, otherVars,
                   alertVars>>

\* What /ingest does with the batch when the request reaches the server.
ServerIngest(batch) ==
    LET r == insert_events_batch(logs, batch)
    IN  /\ logs' = r.logs
        /\ heartbeats' = ImplicitHeartbeats(heartbeats, r.inserted, batch, now)

\* send_events, the request answered with 200 in time; the heartbeat that
\* follows may or may not get through.
SendAcknowledged(hb) ==
    /\ agent.pc = "send"
    /\ LET r == insert_events_batch(logs, agent.batch)
           hb1 == ImplicitHeartbeats(heartbeats, r.inserted, agent.batch, now)
       IN  /\ logs' = r.logs
           /\ heartbeats' = IF hb THEN record_heartbeat(hb1, AgentHost, now) ELSE hb1
    /\ agent' = [agent EXCEPT !.pc = "sleep", !.batch = <<>>]
    /\ cycle' = [cycle EXCEPT !.last_send = "ok", !.failed_batch = {}]
    /\ UNCHANGED <<now, ingest, files, file_states, state_file, processed_lines,
                   reader, parsed, apiVars, fw, otherVars,
                   alertVars>>

\* send_events returning False: the request never reached the server or was
\* answered with another status (delivered = FALSE), or the server stored the
\* batch and the answer did not arrive within the timeout (delivered = TRUE).
SendFailed(delivered) ==
    /\ agent.pc = "send"
    /\ IF delivered THEN ServerIngest(agent.batch)
       ELSE UNCHANGED <<logs, heartbeats>>
    /\ agent' = [agent EXCEPT !.pc = "sleep", !.batch = <<>>]
    /\ cycle' = [cycle EXCEPT !.last_send = "failed",
                              !.failed_batch = SeqToSet(agent.batch)]
    /\ UNCHANGED <<now, ingest, files, file_states, state_file, processed_lines,
                   reader, parsed, apiVars, fw, otherVars,
                   alertVars>>

\* run: no new events, send_heartbeat (which may fail).
SendHeartbeat(ok) ==
    /\ agent.pc = "heartbeat"
    /\ heartbeats' = IF ok THEN record_heartbeat(heartbeats, AgentHost, now)
                     ELSE heartbeats
    /\ agent' = [agent EXCEPT !.pc = "sleep"]
    /\ UNCHANGED <<logs, now, ingest, files, file_states, state_file,
                   processed_lines, cycle, reader, parsed, apiVars, fw, otherVars,
                   alertVars>>

\* run: time.sleep(interval), then the next pass of the loop.
NextCycle ==
    /\ agent.pc = "sleep"
    /\ agent' = [agent EXCEPT !.pc = "collect"]
    /\ cycle' = [cycle EXCEPT !.start_mem = file_states, !.start_file = state_file]
    /\ UNCHANGED <<storeVars, ingest, files, file_states, state_file, processed_lines,
                   reader, parsed, apiVars, fw, otherVars,
                   alertVars>>

\* The agent process stops at any point and is started again: __init__ loads
\* the state file and starts with an empty processed_lines.  A batch not yet
\* acknowledged counts as a failed delivery.
Restart ==
    /\ agent.restarts < MaxRestarts
    /\ file_states' = load_state(state_file)
    /\ processed_lines' = {}
    /\ agent' = [pc |-> "collect", batch |-> <<>>, restarts |-> agent.restarts + 1]
    /\ cycle' = [cycle EXCEPT
                 !.start_mem = load_state(state_file), !.start_file = state_file,
                 !.last_send = IF agent.pc = "send" THEN "failed" ELSE @,
                 !.failed_batch = IF agent.pc = "send" THEN SeqToSet(agent.batch)
                                  ELSE @]
    /\ UNCHANGED <<storeVars, ingest, files, state_file, reader, parsed, apiVars, fw, otherVars,
                   alertVars>>

AgentNext ==
    \/ \E f \in Sources, line \in Lines : AppendLine(f, line)
    \/ CollectEvents
    \/ \E hb \in BOOLEAN : SendAcknowledged(hb)
    \/ \E delivered \in BOOLEAN : SendFailed(delivered)
    \/ \E ok \in BOOLEAN : SendHeartbeat(ok)
    \/ NextCycle
    \/ Restart

AgentSpec == Init /\ [][AgentNext]_vars

(***************************************************************************)
(* Properties of the agent (specification AgentSpec).                      *)
(***************************************************************************)
\* The events of the lines of file f below position n.
EventsBelow(f, n) ==
    {parse_event(files[f].content[k], now) : k \in 1..n} \ {NoEvent}

\* C4: a source's cursor, in memory and in the state file, is committed only
\* after the batch of the cycle was acknowledged: while the batch is not yet
\* sent, and after a failed delivery, every cursor has the value it had when
\* the cycle began.
C4_CursorCommittedAfterAck ==
    (agent.pc = "send" \/ (agent.pc = "sleep" /\ cycle.last_send = "failed")) =>
        /\ file_states = cycle.start_mem
        /\ state_file = cycle.start_file

\* C5: after a failed delivery the next cycle submits the events of the
\* failed batch again, and once a delivery succeeded every event of a line
\* below a cursor is stored.
C5_AtLeastOnce ==
    /\ (agent.pc \in {"send", "heartbeat"} /\ cycle.last_send = "failed") =>
            cycle.failed_batch \subseteq SeqToSet(agent.batch)
    /\ (agent.pc = "sleep" /\ cycle.last_send = "ok") =>
            \A f \in Sources : \A e \in EventsBelow(f, file_states[f]) :
                e.event_id \in StoredIds(logs)

(***************************************************************************)
(* The alert manager's loop and what goes on around it (specification      *)
(* AlertSpec): the clock, the agent of h1, the /alert-config endpoints and *)
(* restarts of the server process.  The severity threshold keeps its       *)
(* default in AlertSpec.                                                   *)
(***************************************************************************)

\* The minutes of the day inside a quiet-hours window (read by audit only).
QuietMinutes(q) ==
    IF ~q.set THEN {}
    ELSE IF q.start < q.end THEN q.start..(q.end - 1)
    ELSE (q.start..(DayMinutes - 1)) \cup (0..(q.end - 1))

InQuietWindow(q, t) == (t % DayMinutes) \in QuietMinutes(q)

\* What one pass of either for loop does with condition c, ok being the
\* answer of send_alert: skip a condition with a record, skip during quiet
\* hours, else send_critical_event_alert / send_host_down_alert (which look
\* for the record once more, call send_alert and record on success).
Outcome(c, ok) ==
    IF check_alert_sent(alert_history, c[1], c[2]) THEN "recorded"
    ELSE IF is_quiet_hour(get_quiet_hours(config), now) THEN "quiet"
    ELSE IF check_alert_sent(alert_history, c[1], c[2]) THEN "failed"
    ELSE IF ok THEN "sent" ELSE "failed"

Evaluated(e, c, outcome) ==
    [e EXCEPT !.cur = c, !.last = outcome,
              !.in_window = InQuietWindow(config.quiet_hours, now),
              !.had_record = c \in alert_history,
              !.pc = IF outcome = "sent" THEN "record" ELSE @]

\* audit.dispatched tells whether no, one or several notifications went out
\* for a condition ("never", "once", "repeatedly");
\* audit.status is what became of its last evaluation that got as far as the
\* quiet-hours test ("quiet", "failed", "sent"), "owed" standing for a
\* dispatch that failed in an earlier cycle; audit.clean tells that the
\* running cycle found alerts enabled and the clock outside quiet hours at
\* both of its checks and at every evaluation; audit.written holds, setting
\* by setting, the value of the last POST /alert-config/* that was answered
\* with success (the defaults before the first).
Audited(a, c, outcome) ==
    IF outcome = "quiet"
    THEN [a EXCEPT !.status[c] = "quiet", !.clean = FALSE]
    ELSE IF outcome = "sent"
    THEN [a EXCEPT !.dispatched[c] = IF @ = "never" THEN "once" ELSE "repeatedly",
                   !.status[c] = "sent"]
    ELSE IF outcome = "failed"
    THEN [a EXCEPT !.status[c] = "failed"]
    ELSE a

Tick ==
    /\ now < MaxNow
    /\ now' = now + 1
    /\ UNCHANGED <<logs, heartbeats, ingest, agentVars, alertVars>>

\* POST /ingest with one event of the agent of h1, handled without
\* interleaving.
AlertIngest(ev) ==
    /\ ServerIngest(<<ev>>)
    /\ UNCHANGED <<now, ingest, agentVars, alertVars>>

\* POST /alert-config/severity-threshold
set_severity_threshold(threshold) ==
    /\ threshold >= 1 /\ threshold <= 5
    /\ config' = [config EXCEPT !.severity_threshold = threshold]
    /\ audit' = [audit EXCEPT !.written.severity_threshold = threshold]
    /\ UNCHANGED <<storeVars, ingest, agentVars, alert_history, engine>>

\* POST /alert-config/inactive-threshold
set_inactive_threshold(minutes) ==
    /\ minutes >= 1 /\ minutes <= 1440
    /\ config' = [config EXCEPT !.inactive_threshold = minutes]
    /\ audit' = [audit EXCEPT !.written.inactive_threshold = minutes]
    /\ UNCHANGED <<storeVars, ingest, agentVars, alert_history, engine>>

\* POST /alert-config/quiet-hours
set_quiet_hours(quiet_hours) ==
    /\ quiet_hours.set =>
            /\ quiet_hours.start \in 0..(DayMinutes - 1)
            /\ quiet_hours.end \in 0..(DayMinutes - 1)
    /\ config' = [config EXCEPT !.quiet_hours = quiet_hours]
    /\ audit' = [audit EXCEPT !.written.quiet_hours = quiet_hours]
    /\ UNCHANGED <<storeVars, ingest, agentVars, alert_history, engine>>

\* POST /alert-config/enable
enable_alerts(enabled) ==
    /\ config' = [config EXCEPT !.enabled = enabled]
    /\ audit' = [audit EXCEPT !.written.enabled = enabled]
    /\ UNCHANGED <<storeVars, ingest, agentVars, alert_history, engine>>

\* check_critical_events up to its for loop: get_alerts_enabled,
\* get_severity_threshold, get_all_events(limit).
check_critical_events ==
    /\ engine.pc \in {"start", "sleep"}
    /\ engine' = [engine EXCEPT
            !.pc = "events", !.i = 1, !.hosts = {}, !.inactive = {},
            !.threshold = IF get_alerts_enabled(config)
                          THEN get_severity_threshold(config) ELSE @,
            !.events = IF get_alerts_enabled(config)
                       THEN get_all_events(logs, ScanLimit) ELSE <<>>]
    /\ audit' = [audit EXCEPT
            !.status = [c \in Conditions |-> IF @[c] = "failed" THEN "owed" ELSE @[c]],
            !.clean = config.enabled /\ ~InQuietWindow(config.quiet_hours, now)]
    /\ UNCHANGED <<storeVars, ingest, agentVars, alert_history, config>>

\* One pass of the for loop of check_critical_events.
AlertCriticalEvent(ok) ==
    /\ engine.pc = "events"
    /\ engine.i <= Len(engine.events)
    /\ LET event == engine.events[engine.i]
           c == CriticalAlert(event.event_id)
           outcome == IF event.severity >= engine.threshold THEN Outcome(c, ok)
                      ELSE "below"
       IN  /\ engine' = [Evaluated(engine, c, outcome) EXCEPT !.i = @ + 1]
           /\ audit' = Audited(audit, c, outcome)
    /\ UNCHANGED <<storeVars, ingest, agentVars, alert_history, config>>

\* record_alert_sent after a notification went out (in send_*_alert, and once
\* more in the manager).
RecordAlertSent ==
    /\ engine.pc = "record"
    /\ alert_history' = record_alert_sent(
            record_alert_sent(alert_history, engine.cur[1], engine.cur[2]),
            engine.cur[1], engine.cur[2])
    /\ engine' = [engine EXCEPT !.pc = IF engine.cur[2] = "critical" THEN "events"
                                       ELSE "hosts"]
    /\ UNCHANGED <<storeVars, ingest, agentVars, config, audit>>

\* check_inactive_hosts up to its for loop: get_alerts_enabled,
\* get_inactive_threshold, get_host_status.
check_inactive_hosts ==
    /\ engine.pc = "events"
    /\ engine.i > Len(engine.events)
    /\ LET host_status == get_host_status(heartbeats, logs, now,
                                          get_inactive_threshold(config))
           inactive == IF get_alerts_enabled(config)
                       THEN {host.hostname : host \in host_status.inactive}
                       ELSE {}
       IN  engine' = [engine EXCEPT !.pc = "hosts", !.hosts = inactive,
                                    !.inactive = inactive]
    /\ audit' = [audit EXCEPT
            !.clean = @ /\ config.enabled /\ ~InQuietWindow(config.quiet_hours, now)]
    /\ UNCHANGED <<storeVars, ingest, agentVars, alert_history, config>>

\* One pass of the for loop of check_inactive_hosts.
AlertInactiveHost(hostname, ok) ==
    /\ engine.pc = "hosts"
    /\ hostname \in engine.hosts
    /\ LET c == HostDownAlert(hostname)
           outcome == Outcome(c, ok)
       IN  /\ engine' = [Evaluated(engine, c, outcome) EXCEPT !.hosts = @ \ {hostname}]
           /\ audit' = Audited(audit, c, outcome)
    /\ UNCHANGED <<storeVars, ingest, agentVars, alert_history, config>>

\* run: both checks are through, time.sleep(ALERT_CHECK_INTERVAL_SECONDS).
EngineSleep ==
    /\ engine.pc = "hosts"
    /\ engine.hosts = {}
    /\ engine' = [NewEngine(engine.crashes) EXCEPT !.pc = "sleep"]
    /\ audit' = [audit EXCEPT !.clean = FALSE]
    /\ UNCHANGED <<storeVars, ingest, agentVars, alert_history, config>>

\* The server process stops at any point and is started again: lifespan
\* calls start_alert_manager, the tables are as they were.
ServerRestart ==
    /\ engine.crashes < MaxCrashes
    /\ engine' = NewEngine(engine.crashes + 1)
    /\ audit' = [audit EXCEPT !.clean = FALSE]
    /\ UNCHANGED <<storeVars, ingest, agentVars, alert_history, config>>

AlertNext ==
    \/ Tick
    \/ \E ev \in AlertEvents : AlertIngest(ev)
    \/ \E h \in AlertHosts : ReceiveHeartbeat(h, "valid")
    \/ \E minutes \in InactiveSettings : set_inactive_threshold(minutes)
    \/ \E quiet_hours \in QuietSettings : set_quiet_hours(quiet_hours)
    \/ \E enabled \in BOOLEAN : enable_alerts(enabled)
    \/ check_critical_events
    \/ \E ok \in BOOLEAN : AlertCriticalEvent(ok)
    \/ RecordAlertSent
    \/ check_inactive_hosts
    \/ \E h \in Hosts, ok \in BOOLEAN : AlertInactiveHost(h, ok)
    \/ EngineSleep
    \/ ServerRestart

AlertSpec == Init /\ [][AlertNext]_vars

(***************************************************************************)
(* Properties of the alert manager (specification AlertSpec).              *)
(***************************************************************************)
\* C6: over any execution, restarts of the process between two steps of a
\* cycle included, at most one notification is dispatched per alert
\* condition (condition id, alert kind).
C6_AtMostOneDispatch ==
    \A c \in Conditions : audit.dispatched[c] # "repeatedly"

CycleDone == engine.pc = "hosts" /\ engine.hosts = {}

\* The condition still holds in the running cycle: the event is stored with a
\* severity at or above the cycle's threshold, the host is among the hosts
\* the cycle found inactive.
Pending(c) ==
    \/ \E r \in logs : c = CriticalAlert(r.event_id) /\ r.severity >= engine.threshold
    \/ \E h \in engine.inactive : c = HostDownAlert(h)

\* C9: a condition passed over because of quiet hours is not cancelled: when
\* a later cycle ran outside the quiet hours with alerts enabled and every
\* dispatch succeeding, no condition that still holds is left passed over,
\* whatever was ingested in between.
C9_QuietDefersNeverCancels ==
    (CycleDone /\ audit.clean /\ \A c \in Conditions : audit.status[c] # "failed") =>
        \A c \in Conditions : ~(audit.status[c] = "quiet" /\ Pending(c))

\* C10: a failed dispatch writes no record (a record exists only for a
\* condition that was dispatched), and the next cycle that runs with alerts
\* enabled and outside quiet hours attempts every condition whose dispatch
\* failed before and that still holds.
C10_FailedDispatchRetried ==
    /\ \A c \in alert_history : audit.dispatched[c] # "never"
    /\ (CycleDone /\ audit.clean) =>
            \A c \in Conditions : ~(audit.status[c] = "owed" /\ Pending(c))

\* The stored event a severity alert is about.
EventOf(c) == CHOOSE r \in AlertEvents : CriticalAlert(r.event_id) = c

\* C11: outside quiet hours a scanned event is dispatched (send_alert is
\* called for it) if and only if its severity is at or above the cycle's
\* threshold and alert_history has no record of it; an event that was
\* dispatched has its record, at the latest when the dispatching pass of the
\* loop is over, so that the next poll passes it over.
C11_DispatchIffSevereAndNew ==
    /\ (engine.last # "none" /\ engine.cur[2] = "critical" /\ ~engine.in_window) =>
            ((engine.last \in {"sent", "failed"}) <=>
                (EventOf(engine.cur).severity >= engine.threshold /\ ~engine.had_record))
    /\ \A e \in AlertEvents :
            audit.dispatched[CriticalAlert(e.event_id)] # "never" =>
                \/ CriticalAlert(e.event_id) \in alert_history
                \/ engine.pc = "record" /\ engine.cur = CriticalAlert(e.event_id)

\* C12: for a host that is inactive poll after poll, one host-down
\* notification is dispatched and one record written, never a second one:
\* when a cycle that ran outside quiet hours with alerts enabled and its
\* dispatches succeeding found the host inactive, the notification has gone
\* out once and the record exists.
C12_OneHostDownAlert ==
    \A h \in AlertHosts :
        /\ audit.dispatched[HostDownAlert(h)] # "repeatedly"
        /\ (CycleDone /\ audit.clean /\ h \in engine.inactive
                /\ audit.status[HostDownAlert(h)] # "failed") =>
                /\ audit.dispatched[HostDownAlert(h)] = "once"
                /\ HostDownAlert(h) \in alert_history

(***************************************************************************)
(* read_new_lines call by call, on files that grow, are rotated, removed   *)
(* and created again (specification CursorSpec).                           *)
(***************************************************************************)
\* The lines written to the files in CursorSpec.
CursorLines == {"fail1", "fail2"}

\* logrotate: the file is moved away and an empty one takes its place.
RotateFile(f) ==
    /\ files[f].present
    /\ files[f].content # <<>>
    /\ files' = [files EXCEPT ![f] = File(<<>>)]
    /\ UNCHANGED <<storeVars, ingest, file_states, state_file, processed_lines,
                   agent, cycle, reader, parsed, apiVars, fw, otherVars, alertVars>>

\* The file is removed.
RemoveFile(f) ==
    /\ files[f].present
    /\ files' = [files EXCEPT ![f] = NoFile]
    /\ UNCHANGED <<storeVars, ingest, file_states, state_file, processed_lines,
                   agent, cycle, reader, parsed, apiVars, fw, otherVars, alertVars>>

\* A removed file is created again, empty.
CreateFile(f) ==
    /\ ~files[f].present
    /\ files' = [files EXCEPT ![f] = File(<<>>)]
    /\ UNCHANGED <<storeVars, ingest, file_states, state_file, processed_lines,
                   agent, cycle, reader, parsed, apiVars, fw, otherVars, alertVars>>

\* read_new_lines(file_path): the position is stored and the state file
\* written when the file was opened, neither when the file does not exist.
ReadNewLines(f) ==
    /\ LET rd == read_new_lines(files[f], file_states[f])
           fs == store_position(file_states, f, rd.pos)
       IN  /\ file_states' = fs
           /\ state_file' = IF rd.read THEN File(fs) ELSE state_file
           /\ reader' = Call(f, files[f], file_states[f], rd.lines)
    /\ UNCHANGED <<storeVars, ingest, files, processed_lines, agent, cycle,
                   parsed, apiVars, fw, otherVars, alertVars>>

CursorNext ==
    \/ \E f \in Sources, line \in CursorLines : AppendLine(f, line)
    \/ \E f \in Sources : RotateFile(f)
    \/ \E f \in Sources : RemoveFile(f)
    \/ \E f \in Sources : CreateFile(f)
    \/ \E f \in Sources : ReadNewLines(f)

CursorSpec == Init /\ [][CursorNext]_vars

\* The step is a call of read_new_lines(f) that returned something else than
\* the call before it or changed a position or the state file.
ReadStep(f) ==
    /\ reader'.file_path = f
    /\ reader' # reader \/ file_states' # file_states \/ state_file' # state_file

\* The size and the content of the file f as the step finds it.
SizeOf(f) == Len(files[f].content)

\* C13: the position of a source decreases only in a call of read_new_lines
\* on that source that finds the file smaller than the stored position; the
\* call then reads from position 0: it returns every line of the file, and
\* the position it stores is the end of the file.
C13_CursorDecreasesOnlyOnRotation ==
    [][\A f \in Sources :
            file_states'[f] < file_states[f] =>
                /\ ReadStep(f)
                /\ files[f].present /\ SizeOf(f) < file_states[f]
                /\ reader'.lines = files[f].content
                /\ file_states'[f] = SizeOf(f)]_vars

C13_Witness ==
    /\ reader.file.present
    /\ Len(reader.file.content) < reader.last_pos
    /\ reader.lines # <<>>
    /\ file_states[reader.file_path] < reader.last_pos

\* C14: a call of read_new_lines that finds the file at least as long as the
\* stored position returns the lines from that position to the end of the
\* file, in order, and none before it, and stores the end of the file as
\* the position; called again on the file as the call before found it, it
\* returns nothing and leaves the position as it is.
C14_ReadsExactlyTheNewLines ==
    [][\A f \in Sources :
            (ReadStep(f) /\ files[f].present /\ SizeOf(f) >= file_states[f]) =>
                /\ Len(reader'.lines) = SizeOf(f) - file_states[f]
                /\ \A k \in 1..Len(reader'.lines) :
                        reader'.lines[k] = files[f].content[file_states[f] + k]
                /\ file_states'[f] = SizeOf(f)
                /\ (reader.file_path = f /\ reader.file = files[f]) =>
                        /\ reader'.lines = <<>>
                        /\ file_states'[f] = file_states[f]]_vars

C14_Witness ==
    /\ reader.file.present
    /\ reader.last_pos > 0
    /\ Len(reader.file.content) > reader.last_pos
    /\ reader.lines = SubSeq(reader.file.content, reader.last_pos + 1,
                             Len(reader.file.content))
    /\ file_states[reader.file_path] = Len(reader.file.content)

\* C15: a call of read_new_lines on a file that does not exist returns no
\* line and changes nothing: not the position of that source, not the
\* position of another source, not the state file.
C15_AbsentSourceMutatesNothing ==
    [][\A f \in Sources :
            (reader'.file_path = f /\ reader' # reader /\ ~files[f].present) =>
                /\ reader'.lines = <<>>
                /\ file_states' = file_states
                /\ state_file' = state_file
                /\ files' = files
                /\ processed_lines' = processed_lines]_vars

C15_Witness ==
    /\ reader.file_path \in Sources
    /\ ~reader.file.present
    /\ reader.last_pos > 0
    /\ file_states[reader.file_path] = reader.last_pos
    /\ state_file.present

\* C16: the position of a source changes only in a call of read_new_lines on
\* that source: a call on another source, and a file that grows, is rotated,
\* removed or created, leave it as it is.
C16_CursorsIndependent ==
    [][\A g \in Sources :
            file_states'[g] # file_states[g] => ReadStep(g)]_vars

C16_Witness ==
    /\ reader.file_path \in Sources
    /\ reader.lines # <<>>
    /\ \E g \in Sources \ {reader.file_path} :
            /\ file_states[g] > 0
            /\ file_states[g] # file_states[reader.file_path]

(***************************************************************************)
(* parse_event called on a line at any time, any number of times, before   *)
(* and after a restart of the agent (specification ClassifySpec).          *)
(***************************************************************************)
\* parse_event(line) at the current time; the properties keep what the first
\* and the latest call on the line returned.
ParseEvent(line) ==
    /\ LET e == parse_event(line, now)
       IN  parsed' = [parsed EXCEPT ![line] =
                        IF @.called THEN [@ EXCEPT !.last = e]
                        ELSE [called |-> TRUE, first |-> e, last |-> e]]
    /\ UNCHANGED <<storeVars, ingest, files, file_states, state_file,
                   processed_lines, agent, cycle, reader, apiVars, fw, otherVars,
                   alertVars>>

ClassifyNext ==
    \/ \E line \in ClassifyLines : ParseEvent(line)
    \/ Tick
    \/ Restart

ClassifySpec == Init /\ [][ClassifyNext]_vars

\* C17: whenever parse_event is called again on a line, at a later time or
\* after a restart, it returns what it returned the first time: None both
\* times, or two events equal in every field.
C17_ClassificationPure ==
    \A line \in ClassifyLines :
        parsed[line].called => parsed[line].last = parsed[line].first

\* The lines parse_event returned an event for.
Classified == {line \in ClassifyLines : parsed[line].called /\ parsed[line].last # NoEvent}

\* C18: the event id of a line is the same on every call of parse_event, and
\* two lines of different content never get the same event id.
C18_EventIdFromContent ==
    /\ \A line \in Classified :
            parsed[line].last.event_id = parsed[line].first.event_id
    /\ \A l1, l2 \in Classified :
            l1 # l2 => parsed[l1].last.event_id # parsed[l2].last.event_id

(***************************************************************************)
(* GET /hosts against the tables, which events and heartbeats of two       *)
(* agents on host h2 and heartbeats of h1 fill (specification HostsSpec).  *)
(***************************************************************************)
\* The inactive_threshold parameter GET /hosts is called with.
HostsThresholds == {1, 2}

\* The events a Linux agent and a firewall agent running on h2 send at t.
HostsEvents(t) ==
    {LogEventOf("e1", "h2", "LINUX", "LOGIN_FAIL", 3, t),
     LogEventOf("e2", "h2", "FIREWALL", "CONNECTION_BLOCKED", 3, t)}

\* POST /ingest with one event, handled without interleaving.  recorded
\* tells whether the record_heartbeat that follows the insert succeeded; it
\* returns False on a database error and ingest_logs goes on.
HostsIngest(ev, recorded) ==
    /\ LET r == insert_events_batch(logs, <<ev>>)
       IN  /\ logs' = r.logs
           /\ heartbeats' = IF recorded
                            THEN ImplicitHeartbeats(heartbeats, r.inserted, <<ev>>, now)
                            ELSE heartbeats
    /\ UNCHANGED <<now, ingest, agentVars, alertVars>>

\* GET /hosts?inactive_threshold=...: validate_api_key, then get_host_status.
GetHostsStatus(inactive_threshold, key) ==
    /\ validate_api_key(key) = 200
    /\ LET host_status == get_host_status(heartbeats, logs, now, inactive_threshold)
       IN  hosts_response' =
                [called |-> TRUE, threshold |-> inactive_threshold, at |-> now,
                 heartbeats |-> heartbeats, logs |-> logs,
                 active |-> host_status.active, inactive |-> host_status.inactive]
    /\ UNCHANGED <<storeVars, ingest, files, file_states, state_file,
                   processed_lines, agent, cycle, reader, parsed, api_call, fw, otherVars,
                   alertVars>>

HostsNext ==
    \/ \E ev \in HostsEvents(now), recorded \in BOOLEAN : HostsIngest(ev, recorded)
    \/ \E key \in ApiKeys : ReceiveHeartbeat("h1", key)
    \/ Tick
    \/ \E m \in HostsThresholds, key \in ApiKeys : GetHostsStatus(m, key)

HostsSpec == Init /\ [][HostsNext]_vars

\* The entries of the answer, of both lists.
Listed == hosts_response.active \cup hosts_response.inactive

\* C19: in an answer of get_host_status an entry whose last_seen lies more
\* than inactive_threshold_minutes before the time of the call is in the
\* inactive list, an entry whose last_seen lies less than that before it is
\* in the active list, and so is an entry whose last_seen lies exactly
\* inactive_threshold_minutes before it.
C19_InactiveBeyondThreshold ==
    hosts_response.called =>
        \A x \in Listed :
            LET age == hosts_response.at - x.last_seen
            IN  /\ age > hosts_response.threshold =>
                        x \in hosts_response.inactive /\ x \notin hosts_response.active
                /\ age < hosts_response.threshold =>
                        x \in hosts_response.active /\ x \notin hosts_response.inactive
                /\ age = hosts_response.threshold =>
                        x \in hosts_response.active /\ x \notin hosts_response.inactive

C19_Witness ==
    /\ hosts_response.called
    /\ \E x \in hosts_response.active :
            hosts_response.at - x.last_seen = hosts_response.threshold
    /\ \E x \in hosts_response.inactive :
            hosts_response.at - x.last_seen > hosts_response.threshold

\* C20: every host that had a heartbeats row or a stored event when
\* get_host_status was called has exactly one entry in the answer, in one of
\* the two lists, whose last_seen is that of the heartbeats row if there is
\* one and else the newest timestamp of the host's events; no other host has
\* an entry.
C20_EachHostListedOnce ==
    hosts_response.called =>
        LET hb == hosts_response.heartbeats
            rows == hosts_response.logs
        IN  /\ \A h \in KnownHosts(hb, rows) :
                    /\ Cardinality({x \in Listed : x.hostname = h}) = 1
                    /\ \A x \in Listed :
                            x.hostname = h => x.last_seen = LastSeen(hb, rows, h)
            /\ \A x \in Listed : x.hostname \in KnownHosts(hb, rows)
            /\ hosts_response.active \cap hosts_response.inactive = {}

(***************************************************************************)
(* POST /ingest and POST /heartbeat, one request at a time, with valid,    *)
(* invalid and missing keys and well-formed and malformed bodies           *)
(* (specification ApiSpec).                                                *)
(***************************************************************************)
\* models.py: os_type is one of five literals, event_type one of fifteen,
\* severity is ge=1, le=5.
OsTypes == {"WINDOWS", "LINUX", "PIHOLE", "MACOS", "FIREWALL"}
EventTypes ==
    {"LOGIN_FAIL", "LOGIN_SUCCESS", "SUDO_ESCALATION", "DNS_BLOCK", "CRITICAL_ERROR",
     "ACCOUNT_CREATE", "ACCOUNT_DELETE", "GROUP_ADD", "SERVICE_INSTALL",
     "LOG_TAMPERING", "CONNECTION_BLOCKED", "PORT_SCAN", "PROCESS_EXEC", "WEB_ATTACK",
     "SYSTEM_ALERT"}
MinSeverity == 1
MaxSeverity == 5

\* The body validation of LogEvent without the bounds of severity.
ValidLogEvent_AnySeverity(ev) ==
    /\ ev.os_type \in OsTypes
    /\ ev.event_type \in EventTypes

\* The body validation of LogEvent.
ValidLogEvent(ev) ==
    /\ ev.os_type \in OsTypes
    /\ ev.event_type \in EventTypes
    /\ ev.severity \in MinSeverity..MaxSeverity

\* The Windows agent's event_mapping: Security event id to type and severity.
event_mapping ==
    [id \in {"4625", "4624", "4688", "4720", "4726", "4728", "4732", "4756", "7045",
            "1102"} |->
        CASE id = "4625" -> [type |-> "LOGIN_FAIL", severity |-> 3]
          [] id = "4624" -> [type |-> "LOGIN_SUCCESS", severity |-> 1]
          [] id = "4688" -> [type |-> "PROCESS_EXEC", severity |-> 1]
          [] id = "4720" -> [type |-> "ACCOUNT_CREATE", severity |-> 4]
          [] id = "4726" -> [type |-> "ACCOUNT_DELETE", severity |-> 3]
          [] id \in {"4728", "4732", "4756"} -> [type |-> "GROUP_ADD", severity |-> 3]
          [] id = "7045" -> [type |-> "SERVICE_INSTALL", severity |-> 3]
          [] id = "1102" -> [type |-> "LOG_TAMPERING", severity |-> 5]]

\* The Windows agent's parse_event of record 1, generated at time t, with
\* the given event id on host h1: None for an id outside the mapping, else the event, whose id is
\* "<source_host>-<event id>-<record number>".
windows_parse_event(id, t) ==
    IF id \notin DOMAIN event_mapping THEN NoEvent
    ELSE LogEventOf(<<AgentHost, "windows", id>>, AgentHost, "WINDOWS",
                    event_mapping[id].type, event_mapping[id].severity, t)

\* The firewall agent's parse_event on host h2, by the first test the line
\* passes: an iptables or generic block, a port scan, an intrusion attempt.
firewall_parse_event(tag, t) ==
    CASE tag \in {"fw-drop", "fw-generic-block"} ->
            LogEventOf(<<"h2", tag, "line">>, "h2", "FIREWALL", "CONNECTION_BLOCKED", 2, t)
      [] tag = "fw-scan" ->
            LogEventOf(<<"h2", tag, "line">>, "h2", "FIREWALL", "PORT_SCAN", 4, t)
      [] tag = "fw-intrusion" ->
            LogEventOf(<<"h2", tag, "line">>, "h2", "FIREWALL", "CRITICAL_ERROR", 5, t)
      [] OTHER -> NoEvent

\* The events the agents' classifiers produce at time t.
AgentEvents(t) ==
    ({parse_event(line, t) : line \in ClassifyLines}
        \cup {windows_parse_event(id, t) : id \in DOMAIN event_mapping \cup {"4634"}}
        \cup {firewall_parse_event(tag, t) :
                 tag \in {"fw-drop", "fw-generic-block", "fw-scan", "fw-intrusion",
                          "none"}})
    \ {NoEvent}

\* The request bodies of ApiSpec at time t: single events of h1 and of h2 as
\* the agents build them (the Windows record was generated at time 0), a
\* batch naming both hosts, and batches with an event outside the schema.
ApiBatches(t) ==
    LET a == parse_event("web403", t)
        b == firewall_parse_event("fw-intrusion", t)
        w == windows_parse_event("1102", 0)
        severe == [b EXCEPT !.severity = 6]
        alien == [b EXCEPT !.os_type = "ROUTER"]
        odd == [b EXCEPT !.event_type = "HEARTBEAT"]
    IN  {<<a>>, <<b>>, <<a, b>>, <<w>>, <<a, severe>>, <<alien>>, <<odd>>}

\* The status POST /ingest answers with: 422 from the body validation, which
\* runs before the handler, 401 or 403 from validate_api_key, else 200.
IngestStatus(batch, key) ==
    IF \E k \in 1..Len(batch) : ~ValidLogEvent(batch[k]) THEN 422
    ELSE validate_api_key(key)

\* POST /ingest, handled without interleaving.
PostIngest(batch, key) ==
    /\ IF IngestStatus(batch, key) = 200
       THEN ServerIngest(batch)
       ELSE UNCHANGED <<logs, heartbeats>>
    /\ api_call' = ApiCall(1 - api_call.n, "ingest",
                           {batch[k].source_host : k \in 1..Len(batch)}, key,
                           \A k \in 1..Len(batch) : ValidLogEvent(batch[k]),
                           IngestStatus(batch, key), now, logs' \ logs)
    /\ UNCHANGED <<now, ingest, files, file_states, state_file, processed_lines,
                   agent, cycle, reader, parsed, hosts_response, fw, otherVars, alertVars>>

\* The status POST /heartbeat answers with: 401 or 403 from validate_api_key,
\* 400 without a source-host header, else 200.
HeartbeatStatus(source_host, key) ==
    IF validate_api_key(key) # 200 THEN validate_api_key(key)
    ELSE IF source_host = "" THEN 400
    ELSE 200

\* POST /heartbeat.
PostHeartbeat(source_host, key) ==
    /\ heartbeats' = IF HeartbeatStatus(source_host, key) = 200
                     THEN record_heartbeat(heartbeats, source_host, now)
                     ELSE heartbeats
    /\ api_call' = ApiCall(1 - api_call.n, "heartbeat", {source_host}, key,
                           source_host # "",
                           HeartbeatStatus(source_host, key), now, {})
    /\ UNCHANGED <<logs, now, ingest, files, file_states, state_file,
                   processed_lines, agent, cycle, reader, parsed, hosts_response,
                   fw, otherVars, alertVars>>

ApiNext ==
    \/ \E batch \in ApiBatches(now), key \in ApiKeys : PostIngest(batch, key)
    \/ \E h \in Hosts \cup {""}, key \in ApiKeys : PostHeartbeat(h, key)
    \/ \E enabled \in BOOLEAN : enable_alerts(enabled)
    \/ Tick

ApiSpec == Init /\ [][ApiNext]_vars

\* The step is a request to the API.
ApiStep == api_call'.n # api_call.n

C22_HeartbeatTouchesOneHost ==
    [][(ApiStep /\ api_call'.op = "heartbeat" /\ api_call'.status = 200) =>
            /\ logs' = logs
            /\ api_call'.added = {}
            /\ alert_history' = alert_history
            /\ config' = config
            /\ \A h \in Hosts :
                    heartbeats'[h] = IF h \in api_call'.hosts THEN now ELSE heartbeats[h]]_vars

C22_Witness ==
    /\ api_call.op = "heartbeat" /\ api_call.status = 200
    /\ api_call.hosts = {"h1"}
    /\ heartbeats["h1"] = api_call.at
    /\ heartbeats["h2"] # NoRow /\ heartbeats["h2"] < api_call.at
    /\ logs # {}
    /\ ~config.enabled

InsideSchema(ev) ==
    /\ ev.severity \in 1..5
    /\ ev.os_type \in {"WINDOWS", "LINUX", "PIHOLE", "MACOS", "FIREWALL"}
    /\ ev.event_type \in EventTypes

ConfigEvents == {LogEvent("e1", "h1", 4, 1)}
SeveritySettings == {0, 5}
ConfigQuietSettings == {NoQuietHours, QuietHours(1, 2)}

ConfigNext ==
    \/ Tick
    \/ \E ev \in ConfigEvents : AlertIngest(ev)
    \/ \E threshold \in SeveritySettings : set_severity_threshold(threshold)
    \/ \E minutes \in InactiveSettings : set_inactive_threshold(minutes)
    \/ \E quiet_hours \in ConfigQuietSettings : set_quiet_hours(quiet_hours)
    \/ \E enabled \in BOOLEAN : enable_alerts(enabled)
    \/ check_critical_events
    \/ AlertCriticalEvent(TRUE)
    \/ RecordAlertSent
    \/ check_inactive_hosts
    \/ \E h \in Hosts : AlertInactiveHost(h, TRUE)
    \/ EngineSleep

ConfigSpec == Init /\ [][ConfigNext]_vars

\* The steps of the engine that read a setting.
CycleStarts == engine.pc \in {"start", "sleep"} /\ engine'.pc = "events"
HostCheckStarts == engine.pc = "events" /\ engine'.pc = "hosts"
Evaluates ==
    \/ engine.pc = "events" /\ engine'.i # engine.i
    \/ engine.pc = "hosts" /\ engine'.hosts # engine.hosts

DedupLimit == 1
\* The lines a file of DedupSpec grows to between two rotations.
DedupFileLen == 1

\* run: events = self.collect_events(), then the rest of the cycle up to
\* time.sleep.
DedupCollect ==
    /\ agent.pc = "collect"
    /\ LET st == collect_events_upto(DedupLimit)
       IN  /\ file_states' = st.file_states
           /\ state_file' = st.state_file
           /\ processed_lines' = st.seen
           /\ agent' = [agent EXCEPT !.pc = "sleep", !.batch = st.events]
           /\ cycle' = [cycle EXCEPT !.calls = st.calls]
    /\ UNCHANGED <<storeVars, ingest, files, reader, parsed, apiVars, fw, otherVars, alertVars>>

DedupNext ==
    \/ \E f \in Sources, line \in Lines :
            Len(files[f].content) < DedupFileLen /\ AppendLine(f, line)
    \/ \E f \in Sources : RotateFile(f)
    \/ DedupCollect
    \/ NextCycle
    \/ Restart

DedupSpec == Init /\ [][DedupNext]_vars

\* A step that ran collect_events.
Collects == agent.pc = "collect" /\ agent'.pc = "sleep"

\* The events of a list of lines, in order.
RECURSIVE EventsOfLines(_)
EventsOfLines(lines) ==
    IF lines = <<>> THEN <<>>
    ELSE (IF parse_event(Head(lines), now) = NoEvent THEN <<>>
          ELSE <<parse_event(Head(lines), now)>>) \o EventsOfLines(Tail(lines))

\* C27: within one process lifetime and until the cache is cleared, a line
\* identical to one seen before, in the same or in another file, is not
\* classified again and yields no second event: a collection classifies no
\* line of the cache, classifies no line twice, and its events are those of
\* the lines it classified.
C27_SeenLineNotClassifiedAgain ==
    [][Collects =>
        /\ \A k \in 1..Len(cycle'.calls) :
              /\ cycle'.calls[k] \notin processed_lines
              /\ \A j \in 1..(k - 1) : cycle'.calls[j] # cycle'.calls[k]
        /\ agent'.batch = EventsOfLines(cycle'.calls)]_vars

\* The collection of this cycle read fail1 from the second file, after an
\* earlier one had read it from the first, and classified nothing.
C27_Witness ==
    /\ agent.pc = "sleep" /\ agent.restarts = 0
    /\ files[LogFiles[1]].content = <<"fail1">>
    /\ files[LogFiles[2]].content = <<"fail1">>
    /\ cycle.start_mem[LogFiles[1]] = 1 /\ file_states[LogFiles[1]] = 1
    /\ cycle.start_mem[LogFiles[2]] = 0 /\ file_states[LogFiles[2]] = 1
    /\ cycle.calls = <<>>
    /\ "fail1" \in processed_lines

\* C28: the cache is bounded: at the end of every collection it holds at
\* most its capacity of entries, and a collection that took it beyond the
\* capacity left it empty.
C28_CacheBounded ==
    [][Collects =>
        /\ Cardinality(processed_lines') <= DedupLimit
        /\ processed_lines' =
              IF Cardinality(processed_lines \cup SeqToSet(cycle'.calls)) > DedupLimit
              THEN {} ELSE processed_lines \cup SeqToSet(cycle'.calls)]_vars

\* A collection took the cache beyond its capacity and emptied it.
C28_Witness ==
    /\ agent.pc = "sleep"
    /\ Cardinality(SeqToSet(cycle.calls)) > DedupLimit
    /\ processed_lines = {}

(***************************************************************************)
(* The state file the agent finds when it starts: the mapping it saved     *)
(* itself, the legacy object of an older agent, a file cut off to nothing, *)
(* or none (specification StateSpec).                                      *)
(***************************************************************************)
\* An older agent left its state file: {"last_position": n}.
LegacyState(n) ==
    /\ state_file' = File([key \in {"last_position"} |-> n])
    /\ UNCHANGED <<storeVars, ingest, files, file_states, processed_lines, agent,
                   cycle, reader, parsed, apiVars, fw, otherVars, alertVars>>

\* The state file is cut off to an empty file.
TruncateState ==
    /\ state_file.present
    /\ state_file' = File(<<>>)
    /\ UNCHANGED <<storeVars, ingest, files, file_states, processed_lines, agent,
                   cycle, reader, parsed, apiVars, fw, otherVars, alertVars>>

\* The state file is removed.
RemoveState ==
    /\ state_file.present
    /\ state_file' = NoFile
    /\ UNCHANGED <<storeVars, ingest, files, file_states, processed_lines, agent,
                   cycle, reader, parsed, apiVars, fw, otherVars, alertVars>>

StateNext ==
    \/ \E f \in Sources : AppendLine(f, "fail1")
    \/ \E f \in Sources : ReadNewLines(f)
    \/ \E n \in 0..MaxFileLen : LegacyState(n)
    \/ TruncateState
    \/ RemoveState
    \/ Restart

StateSpec == Init /\ [][StateNext]_vars

\* A step that started the agent.
Starts == agent'.restarts # agent.restarts

\* C29: at startup a state file in the legacy format gives its position to
\* the first configured source and 0 to every other one, and a state file
\* in the mapping format is loaded as it is.
C29_LegacyStateMigrated ==
    [][(Starts /\ state_file.present) =>
        /\ "last_position" \in DOMAIN state_file.content =>
              \A f \in Sources :
                 file_states'[f] = IF f = LogFiles[1]
                                   THEN state_file.content["last_position"] ELSE 0
        /\ DOMAIN state_file.content = Sources =>
              \A f \in Sources : file_states'[f] = state_file.content[f]]_vars

\* The agent started on the legacy state of position 1: the first source
\* stands at 1, the second at 0, both with two lines.
C29_Witness ==
    /\ agent.restarts = 1
    /\ cycle.start_file.present
    /\ "last_position" \in DOMAIN cycle.start_file.content
    /\ cycle.start_file.content["last_position"] = 1
    /\ file_states[LogFiles[1]] = 1 /\ file_states[LogFiles[2]] = 0
    /\ \A f \in Sources : Len(files[f].content) = 2

\* C30: at startup a state file that is missing or cannot be parsed leaves
\* every source at position 0.
C30_NoStateStartsAtZero ==
    [][(Starts /\ (~state_file.present \/ DOMAIN state_file.content = {})) =>
        \A f \in Sources : file_states'[f] = 0]_vars

\* The agent started on a state file cut off to nothing, after it had read
\* both lines of the first source, and then read them again from the
\* beginning.
C30_Witness ==
    /\ agent.restarts = 1
    /\ cycle.start_file.present /\ DOMAIN cycle.start_file.content = {}
    /\ state_file.present /\ DOMAIN state_file.content = Sources
    /\ reader.file_path = LogFiles[1] /\ reader.last_pos = 0
    /\ Len(reader.lines) = 2 /\ reader.lines = files[LogFiles[1]].content
    /\ file_states[LogFiles[1]] = 2 /\ file_states[LogFiles[2]] = 0

(***************************************************************************)
(* The loop of FirewallAgent.run on host h2 against the server             *)
(* (specification FirewallSpec).  MacOSAgent.run has the same loop.        *)
(***************************************************************************)
FirewallHost == "h2"

\* What collect_events returns in a cycle that starts at t: nothing, or the
\* events of the lines the firewall logged since the cycle before.
FirewallBatches(t) ==
    {<<>>, <<LogEventOf("e1", FirewallHost, "FIREWALL", "CONNECTION_BLOCKED", 2, t)>>,
           <<LogEventOf("e2", FirewallHost, "FIREWALL", "CRITICAL_ERROR", 5, t)>>}

\* run: events = self.collect_events(); sent (history) are the requests the
\* agent has made in the cycle.
FirewallCollect(events) ==
    /\ fw.pc = "collect"
    /\ fw' = [pc |-> IF events # <<>> THEN "send" ELSE "sleep",
              events |-> events, sent |-> {}]
    /\ UNCHANGED <<storeVars, ingest, files, file_states, state_file,
                   processed_lines, agent, cycle, reader, parsed, apiVars,
                   otherVars, alertVars>>

\* run: if events: self.send_events(events).  The request reaches the server
\* or not; its result is not looked at.
FirewallSend(delivered) ==
    /\ fw.pc = "send"
    /\ IF delivered THEN ServerIngest(fw.events)
       ELSE UNCHANGED <<logs, heartbeats>>
    /\ fw' = [fw EXCEPT !.pc = "sleep", !.sent = @ \cup {"ingest"}]
    /\ UNCHANGED <<now, ingest, files, file_states, state_file, processed_lines,
                   agent, cycle, reader, parsed, apiVars, otherVars, alertVars>>

\* run: time.sleep(interval), then the next pass of the loop.
FirewallSleep ==
    /\ fw.pc = "sleep"
    /\ fw' = [fw EXCEPT !.pc = "collect"]
    /\ UNCHANGED <<storeVars, ingest, files, file_states, state_file,
                   processed_lines, agent, cycle, reader, parsed, apiVars,
                   otherVars, alertVars>>

FirewallNext ==
    \/ \E events \in FirewallBatches(now) : FirewallCollect(events)
    \/ \E delivered \in BOOLEAN : FirewallSend(delivered)
    \/ FirewallSleep
    \/ Tick
    \/ \E m \in HostsThresholds, key \in ApiKeys : GetHostsStatus(m, key)

FirewallSpec == Init /\ [][FirewallNext]_vars

\* C23: when a cycle of the agent's loop in which collect_events returned no
\* event has reached its sleep, the agent has sent a heartbeat request in
\* that cycle.
C23_HeartbeatWithoutEvents ==
    (fw.pc = "sleep" /\ fw.events = <<>>) => "heartbeat" \in fw.sent

\* ---------------------------------------------------------------------
\* LoopSpec: the run loops of the Linux agent (LinuxAgent.run), of the
\* Windows service (SvcDoRun) and of the alert engine (AlertManager.run):
\* the steps of a cycle, the sleep between two cycles counted in seconds,
\* and the request to stop.

\* The seconds a loop sleeps between two cycles (the interval, scaled).
SleepSeconds == 2

LoopKinds == {"linux", "service", "engine"}

\* The calls of one cycle, in the order of the loop's body.
CycleSteps(kind) ==
    CASE kind = "linux" -> <<"collect_events", "send_events", "send_system_status">>
      [] kind = "service" -> <<"collect_events", "send_events">>
      [] kind = "engine" -> <<"check_critical_events", "check_inactive_hosts">>

\* How a call of the body ends: it succeeds, it fails and handles the
\* failure itself (it returns), or its exception reaches the loop.
StepOutcomes == {"ok", "handled", "raised"}

\* The except branch of the loop: the error is printed and the loop sleeps
\* the whole interval in one time.sleep call.
AfterRaise_Fatal(l) ==
    [l EXCEPT !.pc = "stopped", !.failed = TRUE, !.raised = TRUE]

AfterRaise(l) ==
    [l EXCEPT !.pc = "sleep", !.left = SleepSeconds, !.polled = FALSE,
              !.failed = TRUE, !.raised = TRUE]

\* The end of the try block: the service leaves the loop when it was asked
\* to stop and waits second by second otherwise; the Linux agent and the
\* engine sleep the interval in one time.sleep call.
AfterBody(l) ==
    IF l.kind = "service" /\ l.stop
    THEN [l EXCEPT !.pc = "stopped"]
    ELSE [l EXCEPT !.pc = "sleep", !.left = SleepSeconds,
                   !.polled = (l.kind = "service")]

\* The head of the while loop: `while True`, `while self.is_alive`,
\* `while self.running`.
LoopHead(l) ==
    IF l.kind # "linux" /\ l.stop
    THEN [l EXCEPT !.pc = "stopped"]
    ELSE [l EXCEPT !.pc = "run", !.step = 1, !.failed = FALSE, !.raised = FALSE,
                   !.after_failure = l.failed, !.waited = 0]

\* run() is called: the loop is entered for the first time.
StartLoop(kind) ==
    /\ loop.kind = "none"
    /\ loop' = LoopHead([NoLoop EXCEPT !.kind = kind])
    /\ UNCHANGED <<baseVars, alertVars, win, classified, quiet, twin>>

\* One call of the loop's body ends.
RunStep(outcome) ==
    /\ loop.pc = "run"
    /\ LET l == [loop EXCEPT !.failed = (loop.failed \/ outcome # "ok")] IN
       loop' = IF outcome = "raised" THEN AfterRaise(loop)
               ELSE IF loop.step < Len(CycleSteps(loop.kind))
                    THEN [l EXCEPT !.step = loop.step + 1]
                    ELSE AfterBody(l)
    /\ UNCHANGED <<baseVars, alertVars, win, classified, quiet, twin>>

\* One second of the sleep passes.  A wait made of one-second sleeps looks at
\* the flag after each of them; a single time.sleep call does not.
SecondPasses ==
    /\ loop.pc = "sleep"
    /\ loop.left > 0
    /\ LET l == [loop EXCEPT !.left = loop.left - 1,
                             !.waited = IF loop.stop THEN loop.waited + 1
                                        ELSE loop.waited] IN
       loop' = IF l.polled /\ l.stop THEN [l EXCEPT !.left = 0] ELSE l
    /\ UNCHANGED <<baseVars, alertVars, win, classified, quiet, twin>>

\* The sleep is over: the loop comes back to its head.
NextPass ==
    /\ loop.pc = "sleep"
    /\ loop.left = 0
    /\ loop' = LoopHead(loop)
    /\ UNCHANGED <<baseVars, alertVars, win, classified, quiet, twin>>

\* A stop is requested: KeyboardInterrupt leaves the Linux agent's loop at
\* once, SvcStop and AlertManager.stop clear the flag the loop reads.
StopRequest ==
    /\ loop.pc \in {"run", "sleep"}
    /\ ~loop.stop
    /\ loop' = IF loop.kind = "linux"
               THEN [loop EXCEPT !.stop = TRUE, !.pc = "stopped"]
               ELSE [loop EXCEPT !.stop = TRUE]
    /\ UNCHANGED <<baseVars, alertVars, win, classified, quiet, twin>>

LoopNext ==
    \/ \E kind \in LoopKinds : StartLoop(kind)
    \/ \E outcome \in StepOutcomes : RunStep(outcome)
    \/ SecondPasses
    \/ NextPass
    \/ StopRequest

LoopSpec == Init /\ [][LoopNext]_vars

\* The loop's thread is scheduled: a call of the body ends, a second of
\* the sleep passes, the loop comes back to its head.  Nothing obliges
\* anybody to ask for a stop.
LoopFairSpec ==
    /\ LoopSpec
    /\ WF_vars(\E outcome \in StepOutcomes : RunStep(outcome))
    /\ WF_vars(SecondPasses)
    /\ WF_vars(NextPass)

\* A step of a cycle raises up to the loop.
StepRaises == ~loop.raised /\ loop'.raised

\* C31: a loop has only terminated when a stop was requested; a step that
\* raises up to the loop leads to the sleep of the whole interval; and a
\* cycle in which a step failed, handled in the step or raised up to the
\* loop, is followed by the start of a next cycle unless a stop is requested.
C31_FailureInCycleNotFatal ==
    /\ [](loop.pc = "stopped" => loop.stop)
    /\ [][StepRaises => (loop'.pc = "sleep" /\ loop'.left = SleepSeconds)]_vars
    /\ ((loop.failed /\ ~loop.stop) ~> (loop.stop \/ (loop.pc = "run" /\ ~loop.failed)))

\* A next cycle runs after a cycle in which a step failed.
C31_Witness == loop.pc = "run" /\ loop.after_failure /\ ~loop.stop

\* C32: a loop that waits between two cycles when a stop is requested
\* sleeps at most the one second of the sub-wait it is in before it notices
\* the request.
C32_StopNoticedAtNextSubWait == loop.waited <= 1

\* ---------------------------------------------------------------------
\* WinSpec: the Windows agent's cycle over the Security log: collect_events
\* reads the log backwards from its newest record, send_events delivers the
\* batch, and the cursor last_record_number moves after a delivery.

\* The records the Security log can hold in the model.
MaxRecords == 4

\* max_events of collect_events (1000 in the service's call), scaled.
WinMaxEvents == 2

\* The event ids of the records: one of the mapping, one outside of it.
RecordIds == {"4625", "5156"}

\* Does parse_event return an event for record n of the log?
MapsToEvent(log, n) == windows_parse_event(log[n], 0) # NoEvent

RECURSIVE ReadBackwards(_, _, _, _, _)
\* The loop of collect_events from record n downwards: it ends at the end of
\* the log, when max_events events are collected, or at a record that is not
\* above last_record_number; it keeps the highest record number it has seen.
ReadBackwards(log, n, last, events, mark) ==
    IF n = 0 \/ Cardinality(events) >= WinMaxEvents \/ n <= last
    THEN [events |-> events, mark |-> mark]
    ELSE ReadBackwards(log, n - 1, last,
                       IF MapsToEvent(log, n) THEN events \cup {n} ELSE events,
                       IF n > mark THEN n ELSE mark)

\* A record is written to the Security log.
WinAppend(id) ==
    /\ Len(win.log) < MaxRecords
    /\ win' = [win EXCEPT !.log = Append(win.log, id)]
    /\ UNCHANGED <<baseVars, alertVars, loop, classified, quiet, twin>>

\* collect_events: the batch is the set of the records whose events it
\* returns; the high-water mark is kept pending when it is above the cursor.
WinCollect ==
    /\ win.pc = "collect"
    /\ LET r == ReadBackwards(win.log, Len(win.log), win.last_record_number, {},
                              win.last_record_number) IN
       win' = [win EXCEPT !.pc = "send", !.batch = r.events,
                          !.pending_high_water_mark =
                              IF r.mark > win.last_record_number THEN r.mark ELSE 0]
    /\ UNCHANGED <<baseVars, alertVars, loop, classified, quiet, twin>>

\* _update_state_after_success: the cursor takes the pending mark, in memory
\* and in the state file.
update_state_after_success(w) ==
    IF w.pending_high_water_mark # 0
    THEN [w EXCEPT !.last_record_number = w.pending_high_water_mark,
                   !.state_file = w.pending_high_water_mark,
                   !.pending_high_water_mark = 0]
    ELSE w

\* The ways the request of send_events can end.
SendOutcomes == {"200", "500", "connection", "timeout"}

\* send_events: an empty batch sends a heartbeat and leaves the state alone;
\* a batch that /ingest answers with 200 moves the cursor.
WinSend(outcome) ==
    /\ win.pc = "send"
    /\ LET w == [win EXCEPT !.pc = "collect", !.status = outcome,
                            !.failed_batch = IF outcome = "200" THEN {} ELSE win.batch,
                            !.delivered = IF outcome = "200" THEN @ \cup win.batch ELSE @] IN
       win' = IF win.batch # {} /\ outcome = "200"
              THEN update_state_after_success(w) ELSE w
    /\ UNCHANGED <<baseVars, alertVars, loop, classified, quiet, twin>>

\* The service is started again: __init__ loads the cursor from the state
\* file and no mark is pending.
WinRestart ==
    /\ win' = [win EXCEPT !.pc = "collect", !.batch = {},
                          !.last_record_number = win.state_file,
                          !.pending_high_water_mark = 0]
    /\ win' # win
    /\ UNCHANGED <<baseVars, alertVars, loop, classified, quiet, twin>>

WinNext ==
    \/ \E id \in RecordIds : WinAppend(id)
    \/ WinCollect
    \/ \E outcome \in SendOutcomes : WinSend(outcome)
    \/ WinRestart

WinSpec == Init /\ [][WinNext]_vars

\* C33: when a cycle has collected its batch after a cycle whose delivery
\* failed, the records of the failed batch are in the new batch.
C33_FailedBatchCollectedAgain ==
    (win.pc = "send" /\ win.status \notin {"none", "200"})
        => win.failed_batch \subseteq win.batch

\* C34: every record up to last_record_number that maps to an event has
\* been in a batch that /ingest answered with 200.
C34_NoRecordSkipped ==
    \A n \in 1..win.last_record_number :
        MapsToEvent(win.log, n) => n \in win.delivered

\* ---------------------------------------------------------------------
\* OrderSpec: the Linux agent's parse_event on a line described by the tests
\* of the detectors it passes: a detector is a pattern together with the
\* conditions around it (the word sudo and the shape of the command, the
\* words postfix or dovecot).

\* The detectors in the order parse_event tries them, by the tag they put
\* in the event id.
DetectorOrder ==
    <<"failed-pwd", "invalid-user", "sudo", "web-403", "web-attack", "mail-fail",
      "oom", "kernel-warn", "systemd-fail", "docker-err", "generic-err">>

Detectors == {DetectorOrder[k] : k \in 1..Len(DetectorOrder)}

\* The event type and the severity each detector returns.
DetectorEvent(tag) ==
    CASE tag \in {"failed-pwd", "invalid-user", "mail-fail"} ->
            [type |-> "LOGIN_FAIL", severity |-> 3]
      [] tag = "sudo" -> [type |-> "SUDO_ESCALATION", severity |-> 2]
      [] tag = "web-403" -> [type |-> "CONNECTION_BLOCKED", severity |-> 2]
      [] tag = "web-attack" -> [type |-> "WEB_ATTACK", severity |-> 4]
      [] tag = "oom" -> [type |-> "CRITICAL_ERROR", severity |-> 5]
      [] tag \in {"kernel-warn", "systemd-fail", "docker-err"} ->
            [type |-> "SYSTEM_ALERT", severity |-> 4]
      [] tag = "generic-err" -> [type |-> "SYSTEM_ALERT", severity |-> 3]

RECURSIVE FirstMatch(_, _)
\* The chain of tests of parse_event from detector k on: the tag of the
\* first detector the line passes, "none" at the end of the chain.
FirstMatch(matches, k) ==
    IF k > Len(DetectorOrder) THEN "none"
    ELSE IF DetectorOrder[k] \in matches THEN DetectorOrder[k]
    ELSE FirstMatch(matches, k + 1)

\* parse_event with the catch-all test made before the others.
classify_line_GenericFirst(short, matches) ==
    LET tag == IF "generic-err" \in matches THEN "generic-err"
               ELSE FirstMatch(matches, 1) IN
    IF short \/ tag = "none" THEN NoEvent
    ELSE LogEventOf(<<AgentHost, tag, "line">>, AgentHost, "LINUX",
                    DetectorEvent(tag).type, DetectorEvent(tag).severity, 0)

\* parse_event on a line that passes the tests in matches: None for a short
\* line and for a line no detector matches, else the event of the first
\* detector that matches.
classify_line(short, matches) ==
    LET tag == FirstMatch(matches, 1) IN
    IF short \/ tag = "none" THEN NoEvent
    ELSE LogEventOf(<<AgentHost, tag, "line">>, AgentHost, "LINUX",
                    DetectorEvent(tag).type, DetectorEvent(tag).severity, 0)

\* parse_event is called on a line.
ClassifyLine(short, matches) ==
    /\ classified' = [called |-> TRUE, short |-> short, matches |-> matches,
                      event |-> classify_line(short, matches)]
    /\ UNCHANGED <<baseVars, alertVars, loop, win, quiet, twin>>

\* The detectors one line matches at most, in the model.
MaxMatches == 3

OrderNext ==
    \E short \in BOOLEAN :
        \E matches \in {m \in SUBSET Detectors : Cardinality(m) <= MaxMatches} :
            ClassifyLine(short, matches)

OrderSpec == Init /\ [][OrderNext]_vars

\* The place of a detector in the order.
PlaceOf(tag) == CHOOSE k \in 1..Len(DetectorOrder) : DetectorOrder[k] = tag

\* The detector that made the event.
TagOf(event) == event.event_id[2]

\* C35: the event parse_event returns is the event of a detector the line
\* matches, and of no detector that comes after another one the line
\* matches; the generic-error detector makes the event only of a line no
\* other detector matches, and its event is a SYSTEM_ALERT; a line that is
\* long enough and matches a detector gets an event, and a line no detector
\* matches gets none.
C35_FirstMatchingDetectorWins ==
    classified.called =>
        /\ classified.event # NoEvent =>
              /\ TagOf(classified.event) \in classified.matches
              /\ \A d \in classified.matches :
                    PlaceOf(TagOf(classified.event)) <= PlaceOf(d)
              /\ classified.event.event_type = DetectorEvent(TagOf(classified.event)).type
              /\ classified.event.severity = DetectorEvent(TagOf(classified.event)).severity
              /\ TagOf(classified.event) = "generic-err" =>
                    /\ classified.matches = {"generic-err"}
                    /\ classified.event.event_type = "SYSTEM_ALERT"
        /\ (classified.event = NoEvent) <=> (classified.short \/ classified.matches = {})

\* A line the OOM, the docker and the generic-error detector all match was
\* classified by the OOM detector.
C35_Witness ==
    /\ classified.called
    /\ classified.matches = {"oom", "docker-err", "generic-err"}
    /\ classified.event # NoEvent
    /\ TagOf(classified.event) = "oom"

\* ---------------------------------------------------------------------
\* QuietSpec: is_quiet_hour called with any window the endpoint accepts, at
\* any minute of the day.

\* The minutes of the day the windows and the clock are taken from.
QuietSamples == {0, 1, 2, 720, DayMinutes - 1}

\* The values of ALERT_QUIET_HOURS: empty, or a window between two samples.
QuietWindows ==
    {NoQuietHours} \cup {QuietHours(start, end) : start, end \in QuietSamples}

\* is_quiet_hour is called at minute current of the day.
EvaluateQuiet(quiet_hours, current) ==
    /\ quiet' = [called |-> TRUE, quiet_hours |-> quiet_hours, current |-> current,
                 result |-> is_quiet_hour(quiet_hours, current)]
    /\ UNCHANGED <<baseVars, alertVars, loop, win, classified, twin>>

QuietNext ==
    \E quiet_hours \in QuietWindows : \E current \in QuietSamples :
        EvaluateQuiet(quiet_hours, current)

QuietSpec == Init /\ [][QuietNext]_vars

\* C36: is_quiet_hour answers true exactly when the window is set and
\* (current - start) mod 1440 < (end - start) mod 1440.
C36_QuietExactlyInsideHalfOpenWindow ==
    quiet.called =>
        (quiet.result <=>
            /\ quiet.quiet_hours.set
            /\ (quiet.current - quiet.quiet_hours.start + DayMinutes) % DayMinutes
                 < (quiet.quiet_hours.end - quiet.quiet_hours.start + DayMinutes) % DayMinutes)

\* ---------------------------------------------------------------------
\* ScanSpec: the alert manager with the settings of a new installation
\* (alerts enabled, no quiet hours, severity threshold 4), every
\* notification delivered, no restart: events are ingested between two
\* polls only.

\* POST /ingest while the alert manager sleeps between two cycles.
IngestBetweenPolls(ev) ==
    /\ engine.pc \in {"start", "sleep"}
    /\ AlertIngest(ev)

ScanNext ==
    \/ Tick
    \/ \E ev \in AlertEvents : IngestBetweenPolls(ev)
    \/ \E h \in AlertHosts : ReceiveHeartbeat(h, "valid")
    \/ \E minutes \in InactiveSettings : set_inactive_threshold(minutes)
    \/ check_critical_events
    \/ AlertCriticalEvent(TRUE)
    \/ RecordAlertSent
    \/ check_inactive_hosts
    \/ \E h \in Hosts : AlertInactiveHost(h, TRUE)
    \/ EngineSleep

ScanSpec == Init /\ [][ScanNext]_vars

\* C37: when a cycle is through, every stored event with a severity at or
\* above the threshold has been notified and has its record, however many
\* other events were ingested before the cycle.
C37_SevereEventNotified ==
    CycleDone =>
        \A r \in logs :
            r.severity >= engine.threshold =>
                /\ CriticalAlert(r.event_id) \in alert_history
                /\ audit.dispatched[CriticalAlert(r.event_id)] # "never"

\* C38: from the first start of the server on, restarts included, at most
\* one host-down notification is dispatched for a hostname, and a record of
\* a host-down alert stands for a notification that went out.
C38_OneHostDownPerHostname ==
    \A h \in AlertHosts :
        /\ HostDownAlert(h) \in alert_history =>
                audit.dispatched[HostDownAlert(h)] = "once"
        /\ audit.dispatched[HostDownAlert(h)] \in {"never", "once"}

Engines == 1..2

\* The manager's loop comes to condition c and looks for its record.
TwinCheck(i, c) ==
    /\ twin.pc[i] = "sleep"
    /\ twin' = [twin EXCEPT !.cur[i] = c,
                            !.pc[i] = IF check_alert_sent(alert_history, c[1], c[2])
                                      THEN "sleep" ELSE "checked"]
    /\ UNCHANGED <<baseVars, alert_history, config, engine, audit, loop, win,
                   classified, quiet>>

\* send_critical_event_alert / send_host_down_alert look for the record once
\* more and return False when it is there.
TwinCheckAgain(i) ==
    /\ twin.pc[i] = "checked"
    /\ twin' = [twin EXCEPT !.pc[i] =
                    IF check_alert_sent(alert_history, twin.cur[i][1], twin.cur[i][2])
                    THEN "sleep" ELSE "send"]
    /\ UNCHANGED <<baseVars, alert_history, config, engine, audit, loop, win,
                   classified, quiet>>

\* send_alert: the notification goes out, or the request fails.
TwinDispatch(i, ok) ==
    /\ twin.pc[i] = "send"
    /\ twin' = [twin EXCEPT !.pc[i] = IF ok THEN "record" ELSE "sleep",
                            !.dispatched[twin.cur[i]] = IF ok THEN @ + 1 ELSE @]
    /\ UNCHANGED <<baseVars, alert_history, config, engine, audit, loop, win,
                   classified, quiet>>

\* record_alert_sent, in send_*_alert and once more in the manager.
TwinRecord(i) ==
    /\ twin.pc[i] = "record"
    /\ alert_history' = record_alert_sent(
            record_alert_sent(alert_history, twin.cur[i][1], twin.cur[i][2]),
            twin.cur[i][1], twin.cur[i][2])
    /\ twin' = [twin EXCEPT !.pc[i] = "sleep"]
    /\ UNCHANGED <<baseVars, config, engine, audit, loop, win, classified, quiet>>

TwinNext ==
    \/ \E i \in Engines, c \in TwinConditions : TwinCheck(i, c)
    \/ \E i \in Engines : TwinCheckAgain(i)
    \/ \E i \in Engines, ok \in BOOLEAN : TwinDispatch(i, ok)
    \/ \E i \in Engines : TwinRecord(i)

TwinSpec == Init /\ [][TwinNext]_vars

\* C40: two alert managers on one store dispatch a condition at most once
\* between them.
C40_NoDoubleDispatchAcrossEngines ==
    \A c \in TwinConditions : twin.dispatched[c] <= 1

====
